---- MODULE Spec2Model ----
(***************************************************************************)
(* Category Draft Coach: the valuation engine.                             *)
(*                                                                         *)
(*  - roster.ts      expandRosterSlots, eligibleForSlot, slotPriority,     *)
(*                   assignPlayersToSlots                                  *)
(*  - stats.ts       computeRosterTotalsFromSlots, getCategoryValue,       *)
(*                   getCategoryValueForZ, computeZScore                   *)
(*  - simulation.ts  mulberry32, randn, snakeTeamIndex,                    *)
(*                   classifyTeamTargets, simulateLeagueDistributions      *)
(*                                                                         *)
(* JavaScript numbers are modelled as exact rationals [n, d] in lowest     *)
(* terms with d > 0; the non-finite results of a division by zero (NaN,    *)
(* Infinity) are the one value NaN = [n |-> 0, d |-> 0].  Rounding of      *)
(* IEEE doubles is not modelled.                                           *)
(***************************************************************************)
EXTENDS Integers, Sequences, FiniteSets, TLC

VARIABLES
    phase,           \* position of the engine pipeline
    draftedPlayers,  \* input list of assignPlayersToSlots
    rosterConfig,    \* settings.rosterConfig.slots
    benchMultiplier, \* settings.benchMultiplier
    assigned,        \* output of assignPlayersToSlots
    totals,          \* output of computeRosterTotalsFromSlots
    dist,            \* the (mean, std) used for the z-scores of this pass
    currentZ,        \* getRecommendations: currentZScores
    zCall,           \* the last call of computeZScore: its arguments and its result
    simPc,           \* position of simulateLeagueDistributions
    simArgs,         \* its arguments: allPlayers, settings, opts
    rngState,        \* the closure variable of the generator made by mulberry32
    iter,            \* the loop counter iter
    scored,          \* the {p, score} pairs mapped so far in this pass
    draft,           \* remaining, teams, teamH, teamP of this pass
    pick,            \* the loop counter pick
    team,            \* the loop counter t
    valuesByCat,     \* the samples pushed so far, by category key
    simResults,      \* the invocations that returned: their arguments and results
    recPc,           \* position of getRecommendations
    recArgs,         \* its arguments
    recEmptySlots,   \* const emptySlots, the template every reassignment starts from
    recCurrent,      \* currentAssigned, openSlots, currentTotals, currentZScores, catWeights
    recIndex,        \* how many of availablePlayers the loop has gone through
    recScored,       \* const scored
    recommendations, \* the value returned
    hookLoaded,      \* useDraftState: isLoaded
    hookInputs,      \* useDraftState: the current (allPlayers, settings)
    hookTimer,       \* useDraftState: the pending timeout, with the inputs its closure holds
    hookChanges,     \* how many times the inputs have changed
    storedDists,     \* useDraftState: leagueDists
    storedLog,       \* every value setLeagueDists has stored, in order
    draftState,      \* the DraftState: myPicks, otherPicks, riskTolerance
    recPass          \* useDraftState: the last evaluation of the recommendations memo

engineVars == <<phase, draftedPlayers, rosterConfig, benchMultiplier, assigned, totals,
                dist, currentZ>>

simVars == <<simPc, simArgs, rngState, iter, scored, draft, pick, team, valuesByCat, simResults>>

recVars == <<recPc, recArgs, recEmptySlots, recCurrent, recIndex, recScored, recommendations>>

hookVars == <<hookLoaded, hookInputs, hookTimer, hookChanges, storedDists, storedLog,
              draftState, recPass>>

vars == <<engineVars, zCall, simVars, recVars, hookVars>>

----------------------------------------------------------------------------
(* Numbers *)

RECURSIVE GCD(_, _)
GCD(a, b) == IF b = 0 THEN a ELSE GCD(b, a % b)

Abs(x) == IF x < 0 THEN -x ELSE x

NaN == [n |-> 0, d |-> 0]

IsFinite(a) == a.d # 0

\* the number n/d, d # 0, in lowest terms
Rat(n, d) ==
    LET g == GCD(Abs(n), Abs(d))
        s == IF d < 0 THEN -1 ELSE 1
    IN  [n |-> (s * n) \div g, d |-> (s * d) \div g]

Num(i) == [n |-> i, d |-> 1]

\* sums are formed over the least common denominator
Add(a, b) ==
    IF a.d = 0 \/ b.d = 0 THEN NaN
    ELSE LET g == GCD(a.d, b.d)
         IN  Rat(a.n * (b.d \div g) + b.n * (a.d \div g), (a.d \div g) * b.d)
Sub(a, b) == Add(a, [n |-> -b.n, d |-> b.d])
\* products are formed after cancelling across the two fractions
Mul(a, b) ==
    IF a.d = 0 \/ b.d = 0 THEN NaN
    ELSE LET g1 == GCD(Abs(a.n), b.d)
             g2 == GCD(Abs(b.n), a.d)
             h1 == IF g1 = 0 THEN 1 ELSE g1
             h2 == IF g2 = 0 THEN 1 ELSE g2
         IN  Rat((a.n \div h1) * (b.n \div h2), (a.d \div h2) * (b.d \div h1))
\* JavaScript "/": a zero divisor gives a non-finite number, never an exception
Div(a, b) ==
    IF a.d = 0 \/ b.d = 0 \/ b.n = 0 THEN NaN
    ELSE Mul(a, IF b.n < 0 THEN [n |-> -b.d, d |-> -b.n] ELSE [n |-> b.d, d |-> b.n])

\* comparisons with NaN are false
Gt(a, b) == a.d # 0 /\ b.d # 0 /\ Sub(a, b).n > 0
Ge(a, b) == a.d # 0 /\ b.d # 0 /\ Sub(a, b).n >= 0
Lt(a, b) == Gt(b, a)
Le(a, b) == Ge(b, a)

----------------------------------------------------------------------------
(* Players (types.ts) *)

HitterFields == {"AB", "H", "R", "HR", "RBI", "SB", "BB", "HBP", "SF"}
PitcherFields == {"IP", "ER", "HA", "BBA", "W", "SV", "K", "QS", "HLD"}

NoFields == [k \in {} |-> Num(0)]

\* a Player: the optional numeric fields are the domain of num
Player(id, positions, role, num) ==
    [playerId |-> id, positions |-> positions, hitterOrPitcher |-> role, num |-> num]

\* slot.player === null
null == Player("", <<>>, "", NoFields)

\* p[k] ?? 0
Field0(p, k) == IF k \in DOMAIN p.num THEN p.num[k] ELSE Num(0)

\* p[k] ?? 999999
RANK_SENTINEL == 999999
FieldRank(p, k) == IF k \in DOMAIN p.num THEN p.num[k] ELSE Num(RANK_SENTINEL)

Range(s) == {s[i] : i \in DOMAIN s}

----------------------------------------------------------------------------
(* Roster configuration (rosterConfig.ts) *)

\* A slot label is the string base + (n = 0 ? "" : n), as expandLabeled makes it:
\* "C" is [base |-> "C", n |-> 0], "OF2" is [base |-> "OF", n |-> 2].  All labels
\* and position codes the program holds are upper case (expandLabeled,
\* normalizePositions, parsePositions), so toUpperCase() leaves them as they are.
Label(base, n) == [base |-> base, n |-> n]

\* expandLabeled(base, count)
expandLabeled(base, count) ==
    IF count <= 0 THEN <<>>
    ELSE IF count = 1 THEN <<Label(base, 0)>>
    ELSE [i \in 1..count |-> Label(base, i)]

HitterPositions == <<"C", "1B", "2B", "3B", "SS", "OF", "DH">>
AllPositions == <<"C", "1B", "2B", "3B", "SS", "OF", "DH", "SP", "RP">>

SlotsOf(labels, elig) == [i \in DOMAIN labels |-> [label |-> labels[i], eligiblePositions |-> elig]]

\* buildRosterConfigFromCounts(counts).slots
buildRosterConfigFromCounts(counts) ==
    SlotsOf(expandLabeled("C", counts.C), <<"C">>)
    \o SlotsOf(expandLabeled("1B", counts.B1), <<"1B">>)
    \o SlotsOf(expandLabeled("2B", counts.B2), <<"2B">>)
    \o SlotsOf(expandLabeled("3B", counts.B3), <<"3B">>)
    \o SlotsOf(expandLabeled("SS", counts.SS), <<"SS">>)
    \o SlotsOf(expandLabeled("OF", counts.OF), <<"OF">>)
    \o SlotsOf(expandLabeled("UTIL", counts.UTIL), HitterPositions)
    \o SlotsOf(expandLabeled("SP", counts.SP), <<"SP">>)
    \o SlotsOf(expandLabeled("RP", counts.RP), <<"RP">>)
    \o SlotsOf(expandLabeled("P", counts.P), <<"SP", "RP">>)
    \o SlotsOf(expandLabeled("BN", counts.BN), AllPositions)

----------------------------------------------------------------------------
(* Roster slots and the Roster Assigner (roster.ts) *)

\* expandRosterSlots(config)
expandRosterSlots(config) ==
    [idx \in DOMAIN config |->
        [id |-> <<config[idx].label, idx>>,
         label |-> config[idx].label,
         eligiblePositions |-> config[idx].eligiblePositions,
         player |-> null]]

\* label.toUpperCase().startsWith("BN")
StartsWithBN(label) == label.base = "BN"

isBenchSlot(slot) == StartsWithBN(slot.label)
isUtilSlot(slot) == slot.label = Label("UTIL", 0)
isPitcherFlex(slot) == slot.label = Label("P", 0)

\* playerPositions.some((p) => slotPositions.includes(p))
PositionsIntersect(player, slot) ==
    \E i \in DOMAIN player.positions :
        \E j \in DOMAIN slot.eligiblePositions :
            player.positions[i] = slot.eligiblePositions[j]

eligibleForSlot(player, slot) ==
    IF isUtilSlot(slot) THEN player.hitterOrPitcher = "hitter"
    ELSE IF isPitcherFlex(slot) THEN player.hitterOrPitcher = "pitcher"
    ELSE PositionsIntersect(player, slot)

\* mutant: the bench is offered before the starting slots
slotPriorityBenchFirst(slot) ==
    IF isBenchSlot(slot) THEN 0
    ELSE IF isUtilSlot(slot) \/ isPitcherFlex(slot) THEN 2
    ELSE 1

slotPriority(slot) ==
    IF isBenchSlot(slot) THEN 3
    ELSE IF isUtilSlot(slot) \/ isPitcherFlex(slot) THEN 2
    ELSE 1

\* the comparator of the player sort is negative
PlayerBelow(a, b) ==
    LET ar == FieldRank(a, "overallRank")
        br == FieldRank(b, "overallRank")
    IN  IF ar # br THEN Lt(ar, br)
        ELSE Lt(FieldRank(a, "ADP"), FieldRank(b, "ADP"))

\* [...draftedPlayers].sort(...): Array.prototype.sort is stable, an element is
\* inserted after every element it does not compare below
RECURSIVE InsertPlayer(_, _)
InsertPlayer(x, sorted) ==
    IF sorted = <<>> THEN <<x>>
    ELSE IF PlayerBelow(x, Head(sorted)) THEN <<x>> \o sorted
    ELSE <<Head(sorted)>> \o InsertPlayer(x, Tail(sorted))

RECURSIVE SortPlayers(_)
SortPlayers(s) ==
    IF s = <<>> THEN <<>>
    ELSE InsertPlayer(s[Len(s)], SortPlayers(SubSeq(s, 1, Len(s) - 1)))

\* the comparator of the slot sort is negative (a, b are {slot, idx} pairs)
SlotBelow(a, b) ==
    LET pa == slotPriority(a.slot) - slotPriority(b.slot)
    IN  IF pa # 0 THEN pa < 0
        ELSE Len(a.slot.eligiblePositions) < Len(b.slot.eligiblePositions)

RECURSIVE InsertSlot(_, _)
InsertSlot(x, sorted) ==
    IF sorted = <<>> THEN <<x>>
    ELSE IF SlotBelow(x, Head(sorted)) THEN <<x>> \o sorted
    ELSE <<Head(sorted)>> \o InsertSlot(x, Tail(sorted))

\* the stable sort of the eligible {slot, idx} pairs
RECURSIVE SortSlots(_)
SortSlots(s) ==
    IF s = <<>> THEN <<>>
    ELSE InsertSlot(s[Len(s)], SortSlots(SubSeq(s, 1, Len(s) - 1)))

\* mutant: the filter without "slot.player === null"
RECURSIVE FilterEligibleAnySlot(_, _, _)
FilterEligibleAnySlot(player, slots, idx) ==
    IF idx > Len(slots) THEN <<>>
    ELSE (IF eligibleForSlot(player, slots[idx])
          THEN <<[slot |-> slots[idx], idx |-> idx]>> ELSE <<>>)
         \o FilterEligibleAnySlot(player, slots, idx + 1)

\* mutant: the filter that never offers a bench slot
RECURSIVE FilterEligibleNoBench(_, _, _)
FilterEligibleNoBench(player, slots, idx) ==
    IF idx > Len(slots) THEN <<>>
    ELSE (IF slots[idx].player = null /\ eligibleForSlot(player, slots[idx])
             /\ ~isBenchSlot(slots[idx])
          THEN <<[slot |-> slots[idx], idx |-> idx]>> ELSE <<>>)
         \o FilterEligibleNoBench(player, slots, idx + 1)

\* the indexes of the empty slots the player is eligible for, in slot order
RECURSIVE FilterEligible(_, _, _)
FilterEligible(player, slots, idx) ==
    IF idx > Len(slots) THEN <<>>
    ELSE (IF slots[idx].player = null /\ eligibleForSlot(player, slots[idx])
          THEN <<[slot |-> slots[idx], idx |-> idx]>> ELSE <<>>)
         \o FilterEligible(player, slots, idx + 1)

\* one turn of the loop "for (const player of players)"
PlaceOne(slots, player) ==
    LET eligibleIndexes == SortSlots(FilterEligible(player, slots, 1))
    IN  IF Len(eligibleIndexes) = 0 THEN slots
        ELSE [slots EXCEPT ![eligibleIndexes[1].idx].player = player]

RECURSIVE PlaceAll(_, _)
PlaceAll(slots, players) ==
    IF players = <<>> THEN slots
    ELSE PlaceAll(PlaceOne(slots, Head(players)), Tail(players))

assignPlayersToSlots(players, emptySlots) ==
    PlaceAll([i \in DOMAIN emptySlots |-> [emptySlots[i] EXCEPT !.player = null]],
             SortPlayers(players))

\* mutant: the players are written into the slots of emptySlots
emptySlotsAssignedInPlace(players, emptySlots) == assignPlayersToSlots(players, emptySlots)

\* the array passed as emptySlots after the call: line 214 builds slots as a new
\* array of new slot objects and every later write goes to slots
emptySlotsAfterAssign(players, emptySlots) == emptySlots

\* the array passed as draftedPlayers after the call: line 216 sorts the copy
\* [...draftedPlayers]
draftedPlayersAfterAssign(players) == players

getOpenSlots(slots) == SelectSeq(slots, LAMBDA s : s.player = null)

----------------------------------------------------------------------------
(* Stat Aggregator (stats.ts) *)

\* the {p, m} pairs pushed on hitters (role = "hitter") or on pitchers (any other
\* role), in slot order; m is the multiplier of the slot
RECURSIVE RolePairs(_, _, _, _)
RolePairs(slots, bm, wantHitters, i) ==
    IF i > Len(slots) THEN <<>>
    ELSE LET player == slots[i].player
             m == IF StartsWithBN(slots[i].label) THEN bm ELSE Num(1)
         IN  (IF player # null /\ ((player.hitterOrPitcher = "hitter") = wantHitters)
              THEN <<[p |-> player, m |-> m]>> ELSE <<>>)
             \o RolePairs(slots, bm, wantHitters, i + 1)

\* pairs.reduce((s, {p, m}) => s + (p[k] ?? 0) * m, 0)
RECURSIVE SumField(_, _)
SumField(pairs, k) ==
    IF pairs = <<>> THEN Num(0)
    ELSE Add(SumField(SubSeq(pairs, 1, Len(pairs) - 1), k),
             Mul(Field0(pairs[Len(pairs)].p, k), pairs[Len(pairs)].m))

\* mutant: the ratio without its zero-denominator guard
RatioUnguarded(num, den) == Div(num, den)

\* den > 0 ? num / den : 0
RatioOrZero(num, den) == IF Gt(den, Num(0)) THEN Div(num, den) ELSE Num(0)

TotalsKeys == HitterFields \cup PitcherFields \cup {"AVG", "OBP", "ERA", "WHIP"}

\* the sums and the ratios of computeRosterTotalsFromSlots (lines 109-160)
RosterTotalsOf(hitters, pitchers) ==
    LET h == [k \in HitterFields |-> SumField(hitters, k)]
        p == [k \in PitcherFields |-> SumField(pitchers, k)]
        obpDenom == Add(Add(Add(h["AB"], h["BB"]), h["HBP"]), h["SF"])
    IN  [k \in TotalsKeys |->
            IF k \in HitterFields THEN h[k]
            ELSE IF k \in PitcherFields THEN p[k]
            ELSE IF k = "AVG" THEN RatioOrZero(h["H"], h["AB"])
            ELSE IF k = "OBP" THEN RatioOrZero(Add(Add(h["H"], h["BB"]), h["HBP"]), obpDenom)
            ELSE IF k = "ERA" THEN RatioOrZero(Mul(p["ER"], Num(9)), p["IP"])
            ELSE RatioOrZero(Add(p["BBA"], p["HA"]), p["IP"])]

\* mutant: AVG as the mean of the hitters' own H/AB
RECURSIVE SumOfOwnAverages(_)
SumOfOwnAverages(pairs) ==
    IF pairs = <<>> THEN Num(0)
    ELSE Add(SumOfOwnAverages(Tail(pairs)),
             RatioOrZero(Field0(Head(pairs).p, "H"), Field0(Head(pairs).p, "AB")))

computeRosterTotalsMeanOfRatios(slots, bm) ==
    LET hitters == RolePairs(slots, bm, TRUE, 1)
    IN  [RosterTotalsOf(hitters, RolePairs(slots, bm, FALSE, 1)) EXCEPT
            !["AVG"] = RatioOrZero(SumOfOwnAverages(hitters), Num(Len(hitters)))]

computeRosterTotalsFromSlots(slots, bm) ==
    RosterTotalsOf(RolePairs(slots, bm, TRUE, 1), RolePairs(slots, bm, FALSE, 1))

\* totals[catKey] ?? 0
getCategoryValue(t, catKey) == IF catKey \in DOMAIN t THEN t[catKey] ELSE Num(0)

\* RATE_PRIORS, RATE_FULL_THRESHOLDS
PRIOR_hitterAB == 1000
PRIOR_pitcherIP == 200
FULL_hitterAB == 3500
FULL_pitcherIP == 900

\* mutant: the raw category value is fed to the z-score
getCategoryValueRaw(t, catKey, mean) == getCategoryValue(t, catKey)

getCategoryValueForZ(t, catKey, mean) ==
    IF catKey = "AVG" THEN
        IF Le(t["AB"], Num(0)) THEN mean
        ELSE IF Ge(t["AB"], Num(FULL_hitterAB)) THEN t["AVG"]
        ELSE Div(Add(t["H"], Mul(mean, Num(PRIOR_hitterAB))),
                 Add(t["AB"], Num(PRIOR_hitterAB)))
    ELSE IF catKey = "OBP" THEN
        LET num == Add(Add(t["H"], t["BB"]), t["HBP"])
            denom == Add(Add(Add(t["AB"], t["BB"]), t["HBP"]), t["SF"])
        IN  IF Le(denom, Num(0)) THEN mean
            ELSE IF Ge(denom, Num(FULL_hitterAB)) THEN t["OBP"]
            ELSE Div(Add(num, Mul(mean, Num(PRIOR_hitterAB))),
                     Add(denom, Num(PRIOR_hitterAB)))
    ELSE IF catKey = "ERA" THEN
        LET priorER == Div(Mul(mean, Num(PRIOR_pitcherIP)), Num(9))
        IN  IF Le(t["IP"], Num(0)) THEN mean
            ELSE IF Ge(t["IP"], Num(FULL_pitcherIP)) THEN t["ERA"]
            ELSE Div(Mul(Add(t["ER"], priorER), Num(9)),
                     Add(t["IP"], Num(PRIOR_pitcherIP)))
    ELSE IF catKey = "WHIP" THEN
        LET baserunners == Add(t["BBA"], t["HA"])
        IN  IF Le(t["IP"], Num(0)) THEN mean
            ELSE IF Ge(t["IP"], Num(FULL_pitcherIP)) THEN t["WHIP"]
            ELSE Div(Add(baserunners, Mul(mean, Num(PRIOR_pitcherIP))),
                     Add(t["IP"], Num(PRIOR_pitcherIP)))
    ELSE getCategoryValue(t, catKey)

\* mutant: the direction is ignored
computeZScoreHigherOnly(value, mean, std, direction) ==
    IF std = Num(0) THEN Num(0) ELSE Div(Sub(value, mean), std)

computeZScore(value, mean, std, direction) ==
    IF std = Num(0) THEN Num(0)
    ELSE IF direction = "lower" THEN Div(Sub(mean, value), std)
    ELSE Div(Sub(value, mean), std)

----------------------------------------------------------------------------
(* Defaults (defaults.ts) *)

CategoryDef(key, direction, enabled, type) ==
    [key |-> key, direction |-> direction, enabled |-> enabled, type |-> type]

\* DEFAULT_HITTER_CATEGORIES followed by DEFAULT_PITCHER_CATEGORIES
DEFAULT_CATEGORIES ==
    << CategoryDef("R", "higher", TRUE, "hitter"),
       CategoryDef("HR", "higher", TRUE, "hitter"),
       CategoryDef("RBI", "higher", TRUE, "hitter"),
       CategoryDef("SB", "higher", TRUE, "hitter"),
       CategoryDef("AVG", "higher", TRUE, "hitter"),
       CategoryDef("OBP", "higher", FALSE, "hitter"),
       CategoryDef("W", "higher", TRUE, "pitcher"),
       CategoryDef("SV", "higher", TRUE, "pitcher"),
       CategoryDef("K", "higher", TRUE, "pitcher"),
       CategoryDef("ERA", "lower", TRUE, "pitcher"),
       CategoryDef("WHIP", "lower", TRUE, "pitcher"),
       CategoryDef("QS", "higher", FALSE, "pitcher"),
       CategoryDef("HLD", "higher", FALSE, "pitcher") >>

CategoryKeys == {DEFAULT_CATEGORIES[i].key : i \in DOMAIN DEFAULT_CATEGORIES}

DEFAULT_TARGETS ==
    [k \in CategoryKeys |->
        CASE k = "R" -> Num(850) [] k = "HR" -> Num(220) [] k = "RBI" -> Num(830)
          [] k = "SB" -> Num(120) [] k = "AVG" -> Rat(265, 1000) [] k = "OBP" -> Rat(340, 1000)
          [] k = "W" -> Num(70) [] k = "SV" -> Num(75) [] k = "K" -> Num(1200)
          [] k = "ERA" -> Rat(370, 100) [] k = "WHIP" -> Rat(118, 100)
          [] k = "QS" -> Num(80) [] k = "HLD" -> Num(60)]

DEFAULT_STDEVS ==
    [k \in CategoryKeys |->
        CASE k = "R" -> Num(65) [] k = "HR" -> Num(30) [] k = "RBI" -> Num(60)
          [] k = "SB" -> Num(30) [] k = "AVG" -> Rat(12, 1000) [] k = "OBP" -> Rat(12, 1000)
          [] k = "W" -> Num(10) [] k = "SV" -> Num(20) [] k = "K" -> Num(120)
          [] k = "ERA" -> Rat(40, 100) [] k = "WHIP" -> Rat(6, 100)
          [] k = "QS" -> Num(12) [] k = "HLD" -> Num(15)]

\* leagueDists === null
NoDists == [k \in {} |-> [mean |-> Num(0), std |-> Num(1)]]

\* leagueDists?.categories?.[key]?.mean ?? targets[key] ?? DEFAULT_TARGETS[key] ?? 0
MeanFor(leagueDists, targets, key) ==
    IF key \in DOMAIN leagueDists THEN leagueDists[key].mean
    ELSE IF key \in DOMAIN targets THEN targets[key]
    ELSE IF key \in DOMAIN DEFAULT_TARGETS THEN DEFAULT_TARGETS[key]
    ELSE Num(0)

\* leagueDists?.categories?.[key]?.std ?? DEFAULT_STDEVS[key] ?? 1
StdFor(leagueDists, key) ==
    IF key \in DOMAIN leagueDists THEN leagueDists[key].std
    ELSE IF key \in DOMAIN DEFAULT_STDEVS THEN DEFAULT_STDEVS[key]
    ELSE Num(1)

\* getRecommendations: the z-score of one category of the given totals
CategoryZ(t, cat, leagueDists, targets) ==
    LET mean == MeanFor(leagueDists, targets, cat.key)
        std == StdFor(leagueDists, cat.key)
        valForZ == getCategoryValueForZ(t, cat.key, mean)
    IN  computeZScore(valForZ, mean, std, cat.direction)

\* getRecommendations: currentZScores, one entry per enabled category
CurrentZScores(t, categories, leagueDists, targets) ==
    LET active == SelectSeq(categories, LAMBDA c : c.enabled)
    IN  [k \in {active[i].key : i \in DOMAIN active} |->
            LET cat == CHOOSE c \in Range(active) : c.key = k
            IN  CategoryZ(t, cat, leagueDists, targets)]

----------------------------------------------------------------------------
(* The inputs of the engine pipeline *)

MaxPlayers == 3

Ranked(rank, f) == ("overallRank" :> Num(rank)) @@ f

\* the player pool: the fields a catalog row can hold (importPlayersFromRows)
Pool ==
    { Player("a", <<"C">>, "hitter",
             Ranked(1, "ADP" :> Num(1) @@ "AB" :> Num(1) @@ "H" :> Num(1)
                       @@ "R" :> Num(2) @@ "BB" :> Num(1))),
      Player("b", <<"OF">>, "hitter",
             Ranked(2, "AB" :> Num(999) @@ "H" :> Num(0) @@ "HR" :> Num(1))),
      Player("c", <<"C", "1B">>, "hitter", NoFields),
      Player("d", <<"C">>, "hitter",
             "AB" :> Num(3500) @@ "H" :> Num(1000) @@ "HBP" :> Num(1) @@ "SF" :> Num(1)),
      Player("e", <<"SP">>, "pitcher",
             Ranked(3, "ADP" :> Num(5) @@ "IP" :> Num(900) @@ "ER" :> Num(300)
                       @@ "HA" :> Num(800) @@ "BBA" :> Num(200) @@ "K" :> Num(3))),
      \* a row whose type column says pitcher and whose position is OF (inferType)
      Player("f", <<"OF">>, "pitcher", Ranked(4, "W" :> Num(1))) }

InputLists ==
    {s \in UNION {[1..n -> Pool] : n \in 0..MaxPlayers} :
        \A i, j \in DOMAIN s : i # j => s[i] # s[j]}

Counts(c, of, util, sp, p, bn) ==
    [C |-> c, B1 |-> 0, B2 |-> 0, B3 |-> 0, SS |-> 0, OF |-> of, UTIL |-> util,
     SP |-> sp, RP |-> 0, P |-> p, BN |-> bn]

RosterCountsSet ==
    { Counts(0, 0, 0, 0, 0, 0), Counts(1, 1, 1, 0, 0, 1), Counts(1, 0, 1, 0, 1, 1),
      Counts(1, 0, 0, 0, 0, 0), Counts(0, 0, 2, 1, 0, 2), Counts(0, 1, 0, 1, 1, 0) }

\* settings.benchMultiplier is kept in [0, 0.9] (migrateLeagueSettings)
BenchMultipliers == {Num(0), Rat(1, 5), Rat(9, 10)}

DistChoices ==
    {NoDists} \cup
    { [k \in CategoryKeys |-> [mean |-> m, std |-> sd]] :
        m \in {Num(0), Rat(1, 4), Num(3)}, sd \in {Num(1), Rat(1, 2)} }

\* the category definitions with the direction of every category set
CategoriesWith(direction, allEnabled) ==
    [i \in DOMAIN DEFAULT_CATEGORIES |->
        [DEFAULT_CATEGORIES[i] EXCEPT
            !.direction = IF direction = "" THEN @ ELSE direction,
            !.enabled = allEnabled \/ @]]

NoTotals == [k \in {} |-> Num(0)]

\* computeZScore has not been called
NoCall == [value |-> Num(0), mean |-> Num(0), std |-> Num(0), direction |-> "", z |-> Num(0)]

\* simulateLeagueDistributions is not running and has not run
NoArgs ==
    [allPlayers |-> <<>>,
     settings |-> [rosterConfig |-> <<>>, numTeams |-> 0, benchMultiplier |-> Num(0),
                   categories |-> <<>>],
     opts |-> [iterations |-> 0, seed |-> 0, randomness |-> 0]]

NoDraft == [remaining |-> <<>>, teams |-> <<>>, teamH |-> <<>>, teamP |-> <<>>]

IdleSim ==
    /\ simPc = "idle"
    /\ simArgs = NoArgs
    /\ rngState = <<0, 0>>
    /\ iter = 0
    /\ scored = <<>>
    /\ draft = NoDraft
    /\ pick = 0
    /\ team = 0
    /\ valuesByCat = [k \in {} |-> <<>>]
    /\ simResults = <<>>

\* getRecommendations is not running and has not run
NoRecArgs ==
    [availablePlayers |-> <<>>, myDraftedPlayers |-> <<>>,
     settings |-> [rosterConfig |-> <<>>, benchMultiplier |-> Num(0), categories |-> <<>>,
                   targets |-> NoTotals, competitiveThresholdZ |-> Num(0)],
     leagueDists |-> NoDists, riskTolerance |-> Num(0), currentOverallPick |-> 0, topN |-> 0]

NoCurrent ==
    [currentAssigned |-> <<>>, openSlots |-> <<>>, currentTotals |-> NoTotals,
     currentZScores |-> NoTotals, catWeights |-> NoTotals]

IdleRec ==
    /\ recPc = "idle"
    /\ recArgs = NoRecArgs
    /\ recEmptySlots = <<>>
    /\ recCurrent = NoCurrent
    /\ recIndex = 0
    /\ recScored = <<>>
    /\ recommendations = <<>>

\* useDraftState: the (allPlayers, settings) of a render that is not there
NoInputs == [allPlayers |-> "", settings |-> ""]

\* useState<LeagueCategoryDistributions | null>(null)
NullDists == [simulated |-> FALSE, from |-> NoInputs, iterations |-> 0, seed |-> 0]

\* createEmptyDraftState() (draft.ts lines 3-9)
createEmptyDraftState == [myPicks |-> <<>>, otherPicks |-> <<>>, riskTolerance |-> Rat(1, 2)]

\* the recommendations memo has not called getRecommendations
NoPass == [called |-> FALSE, inputs |-> NoInputs, dists |-> NullDists, args |-> NoRecArgs]

\* the hook is not mounted
IdleHook ==
    /\ hookLoaded = FALSE
    /\ hookInputs = NoInputs
    /\ hookTimer = <<>>
    /\ hookChanges = 0
    /\ storedDists = NullDists
    /\ storedLog = <<>>
    /\ draftState = createEmptyDraftState
    /\ recPass = NoPass

----------------------------------------------------------------------------
(* The engine pipeline: assign, aggregate, z-scores *)

Init ==
    /\ phase = "input"
    /\ draftedPlayers \in InputLists
    /\ rosterConfig \in {buildRosterConfigFromCounts(c) : c \in RosterCountsSet}
    /\ benchMultiplier \in BenchMultipliers
    /\ assigned = <<>>
    /\ totals = NoTotals
    /\ dist = NoDists
    /\ currentZ = NoTotals
    /\ zCall = NoCall
    /\ IdleSim
    /\ IdleRec
    /\ IdleHook

\* const currentAssigned = assignPlayersToSlots(myDraftedPlayers, emptySlots)
Assign ==
    /\ phase = "input"
    /\ assigned' = assignPlayersToSlots(draftedPlayers, expandRosterSlots(rosterConfig))
    /\ phase' = "assigned"
    /\ UNCHANGED <<draftedPlayers, rosterConfig, benchMultiplier, totals, dist, currentZ, zCall, simVars, recVars, hookVars>>

\* const currentTotals = computeRosterTotalsFromSlots(currentAssigned, benchMultiplier)
Aggregate ==
    /\ phase = "assigned"
    /\ totals' = computeRosterTotalsFromSlots(assigned, benchMultiplier)
    /\ phase' = "totalled"
    /\ UNCHANGED <<draftedPlayers, rosterConfig, benchMultiplier, assigned, dist, currentZ, zCall, simVars, recVars, hookVars>>

\* the loop over activeCategories that fills currentZScores
ZScores ==
    /\ phase = "totalled"
    /\ \E d \in DistChoices, direction \in {"", "higher", "lower"} :
          /\ dist' = d
          /\ currentZ' = CurrentZScores(totals, CategoriesWith(direction, direction # ""),
                                        d, DEFAULT_TARGETS)
    /\ phase' = "scored"
    /\ UNCHANGED <<draftedPlayers, rosterConfig, benchMultiplier, assigned, totals, zCall, simVars, recVars, hookVars>>

Next == Assign \/ Aggregate \/ ZScores

Spec == Init /\ [][Next]_vars

----------------------------------------------------------------------------
(* The seeded generator (simulation.ts) *)

\* A 32-bit word is <<hi, lo>>, two 16-bit halves.  The closure variable seed of
\* mulberry32 is a double that "+=" never wraps, but every use of it goes through
\* ToInt32 (Math.imul, ^, >>>), so only seed mod 2^32 is ever read.
Word(hi, lo) == <<hi % 65536, lo % 65536>>

\* the word of a non-negative integer below 2^31
ToWord(i) == Word(i \div 65536, i % 65536)

RECURSIVE Xor16(_, _)
Xor16(a, b) ==
    IF a = 0 THEN b ELSE IF b = 0 THEN a
    ELSE 2 * Xor16(a \div 2, b \div 2) + ((a + b) % 2)

RECURSIVE Or16(_, _)
Or16(a, b) ==
    IF a = 0 THEN b ELSE IF b = 0 THEN a
    ELSE 2 * Or16(a \div 2, b \div 2) + (IF a % 2 = 1 \/ b % 2 = 1 THEN 1 ELSE 0)

\* x ^ y
Xor32(x, y) == <<Xor16(x[1], y[1]), Xor16(x[2], y[2])>>

\* x | c, c below 2^16
OrSmall(x, c) == <<x[1], Or16(x[2], c)>>

\* x + y, low 32 bits
Add32(x, y) ==
    LET lo == x[2] + y[2]
    IN  Word(x[1] + y[1] + lo \div 65536, lo)

Pow2(k) == IF k = 7 THEN 128 ELSE IF k = 14 THEN 16384 ELSE 32768

\* x >>> k, for k in {7, 14, 15}
Shr32(x, k) ==
    <<x[1] \div Pow2(k), (x[2] \div Pow2(k)) + (x[1] % Pow2(k)) * (65536 \div Pow2(k))>>

\* the 32-bit product of two 16-bit numbers
Mul16(x, y) ==
    LET t1 == (x % 256) * y
        t2 == (x \div 256) * y
        low == t1 + (t2 % 256) * 256
    IN  Word(t2 \div 256 + low \div 65536, low)

\* Math.imul(x, y): the low 32 bits of the product
Imul(x, y) ==
    LET ll == Mul16(x[2], y[2])
        hl == Mul16(x[1], y[2])
        lh == Mul16(x[2], y[1])
    IN  Word(ll[1] + hl[2] + lh[2], ll[2])

GOLDEN == <<27947, 31221>>   \* 0x6d2b79f5

\* one generator for the whole module: only the first invocation seeds it
mulberry32Shared(seed) == IF simResults = <<>> THEN ToWord(seed) ELSE rngState

\* mulberry32(seed): the generator, that is the value of its closure variable
mulberry32(seed) == ToWord(seed)

\* one call of the generator: [state |-> the closure variable after the call,
\* out |-> the 32-bit word whose value / 2^32 is returned]
rng(gen) ==
    LET s1 == Add32(gen, GOLDEN)
        t1 == Imul(Xor32(s1, Shr32(s1, 15)), OrSmall(s1, 1))
        t2 == Xor32(t1, Add32(t1, Imul(Xor32(t1, Shr32(t1, 7)), OrSmall(t1, 61))))
    IN  [state |-> s1, out |-> Xor32(t2, Shr32(t2, 14))]

\* the loops "while (u === 0) u = rng()": draw until the word is not zero
RECURSIVE DrawNonZero(_)
DrawNonZero(gen) ==
    LET r == rng(gen)
    IN  IF r.out = <<0, 0>> THEN DrawNonZero(r.state) ELSE r

\* Math.sqrt(-2 * Math.log(u)) and Math.cos(2 * Math.PI * v), in hundredths, at
\* the mid-point of the eighth of (0, 1) that u or v lies in (the top three bits
\* of the word)
Eighth(w) == w[1] \div 8192 + 1
RadiusTable == <<235, 183, 153, 129, 107, 87, 64, 36>>
CosineTable == <<92, 38, -38, -92, -92, -38, 38, 92>>

\* randn(rng): [state |-> the generator after the draws, value |-> the normal
\* deviate in hundredths]
randn(gen) ==
    LET u == DrawNonZero(gen)
        v == DrawNonZero(u.state)
    IN  [state |-> v.state,
         value |-> (RadiusTable[Eighth(u.out)] * CosineTable[Eighth(v.out)]) \div 100]

----------------------------------------------------------------------------
(* The League Distribution Simulator (simulation.ts) *)

\* mutant: every round runs forward
snakeTeamIndexForward(pickIndex, numTeams) == pickIndex % numTeams

snakeTeamIndex(pickIndex, numTeams) ==
    LET round == pickIndex \div numTeams
        pos == pickIndex % numTeams
    IN  IF round % 2 = 0 THEN pos ELSE numTeams - 1 - pos

IsPitcherSlot(s) ==
    \/ s.label = Label("P", 0)
    \/ \E i \in DOMAIN s.eligiblePositions : s.eligiblePositions[i] \in {"SP", "RP", "P"}

\* Math.round of a non-negative quotient n / d
RoundQuotient(n, d) == (2 * n + d) \div (2 * d)

\* mutant: the bench slots are left out of the targets
classifyTeamTargetsStartersOnly(slots) ==
    [hitterTarget |->
         Cardinality({i \in DOMAIN slots :
                         ~StartsWithBN(slots[i].label) /\ ~IsPitcherSlot(slots[i])}),
     pitcherTarget |->
         Cardinality({i \in DOMAIN slots :
                         ~StartsWithBN(slots[i].label) /\ IsPitcherSlot(slots[i])}),
     rosterSize |-> Len(slots)]

classifyTeamTargets(slots) ==
    LET starters == {i \in DOMAIN slots : ~StartsWithBN(slots[i].label)}
        bench == Len(slots) - Cardinality(starters)
        pitcherStart == Cardinality({i \in starters : IsPitcherSlot(slots[i])})
        hitterStart == Cardinality(starters) - pitcherStart
        totalStart == hitterStart + pitcherStart
        benchH == IF totalStart > 0 THEN RoundQuotient(bench * hitterStart, totalStart) ELSE 0
    IN  [hitterTarget |-> hitterStart + benchH,
         pitcherTarget |-> pitcherStart + (bench - benchH),
         rosterSize |-> Len(slots)]

\* const baseRank = (p) => p.overallRank ?? p.ADP ?? 999999
baseRank(p) ==
    IF "overallRank" \in DOMAIN p.num THEN p.num["overallRank"] ELSE FieldRank(p, "ADP")

\* a number in hundredths
Centi(x) == (x.n * 100) \div x.d

\* one element of allPlayers.map((p) => ({ p, score: baseRank(p) + randn(rng) *
\* randomness })), noise being the value randn returned; the score is in hundredths
ScoreOf(p, noise, randomness) ==
    [p |-> p, score |-> Centi(baseRank(p)) + noise * randomness]

\* .sort((a, b) => a.score - b.score), a stable sort
RECURSIVE InsertScored(_, _)
InsertScored(x, sorted) ==
    IF sorted = <<>> THEN <<x>>
    ELSE IF x.score < sorted[1].score THEN <<x>> \o sorted
    ELSE <<sorted[1]>> \o InsertScored(x, Tail(sorted))

RECURSIVE SortScored(_)
SortScored(s) ==
    IF s = <<>> THEN <<>>
    ELSE InsertScored(s[Len(s)], SortScored(SubSeq(s, 1, Len(s) - 1)))

\* mutant: a tie of the two deficits goes to the pitchers
desiredTypePitcherOnTie(teamH, teamP, hitterTarget, pitcherTarget) ==
    IF teamH < hitterTarget /\ teamP < pitcherTarget
    THEN (IF Ge(Rat(pitcherTarget - teamP, pitcherTarget), Rat(hitterTarget - teamH, hitterTarget))
          THEN "pitcher" ELSE "hitter")
    ELSE IF teamH < hitterTarget THEN "hitter"
    ELSE IF teamP < pitcherTarget THEN "pitcher"
    ELSE "either"

\* the type the team on the clock wants
desiredType(teamH, teamP, hitterTarget, pitcherTarget) ==
    LET needH == teamH < hitterTarget
        needP == teamP < pitcherTarget
        Max1(x) == IF x > 1 THEN x ELSE 1
        hDef == Rat(hitterTarget - teamH, Max1(hitterTarget))
        pDef == Rat(pitcherTarget - teamP, Max1(pitcherTarget))
    IN  IF needH /\ ~needP THEN "hitter"
        ELSE IF needP /\ ~needH THEN "pitcher"
        ELSE IF needH /\ needP THEN (IF Gt(pDef, hDef) THEN "pitcher" ELSE "hitter")
        ELSE "either"

\* the index, in remaining, of the player picked (from 1)
chosenIdx(remaining, desired) ==
    LET hits == {i \in DOMAIN remaining : remaining[i].hitterOrPitcher = desired}
    IN  IF desired = "either" \/ hits = {} THEN 1
        ELSE CHOOSE i \in hits : \A j \in hits : i <= j

\* mutant: the chosen player is read and left in the list
RemoveAtKeep(s, i) == s

\* remaining.splice(i, 1), from 1
RemoveAt(s, i) == SubSeq(s, 1, i - 1) \o SubSeq(s, i + 1, Len(s))

\* the body of the loop over pick; d is [remaining, teams, teamH, teamP]
PickOne(d, pickIndex, numTeams, targets) ==
    LET tm == snakeTeamIndex(pickIndex, numTeams) + 1
        desired == desiredType(d.teamH[tm], d.teamP[tm],
                               targets.hitterTarget, targets.pitcherTarget)
        idx == chosenIdx(d.remaining, desired)
        chosen == d.remaining[idx]
    IN  IF d.remaining = <<>> THEN d
        ELSE [remaining |-> RemoveAt(d.remaining, idx),
              teams |-> [d.teams EXCEPT ![tm] = Append(@, chosen)],
              teamH |-> [d.teamH EXCEPT ![tm] =
                            IF chosen.hitterOrPitcher = "hitter" THEN @ + 1 ELSE @],
              teamP |-> [d.teamP EXCEPT ![tm] =
                            IF chosen.hitterOrPitcher = "hitter" THEN @ ELSE @ + 1]]

\* remaining, teams, teamH and teamP before the first pick
DraftStart(draftOrder, numTeams) ==
    [remaining |-> draftOrder,
     teams |-> [t \in 1..numTeams |-> <<>>],
     teamH |-> [t \in 1..numTeams |-> 0],
     teamP |-> [t \in 1..numTeams |-> 0]]

\* settings.categories.filter((c) => c.enabled), as keys
activeCategories(settings) ==
    {settings.categories[i].key :
        i \in {j \in DOMAIN settings.categories : settings.categories[j].enabled}}

\* the totals of one simulated team
TeamTotals(players, settings) ==
    computeRosterTotalsFromSlots(
        assignPlayersToSlots(players, expandRosterSlots(settings.rosterConfig)),
        settings.benchMultiplier)

RECURSIVE SumSeq(_)
SumSeq(s) == IF s = <<>> THEN Num(0) ELSE Add(s[1], SumSeq(Tail(s)))

\* Math.sqrt(x): the non-negative number whose square is x
Sqrt(x) == [squared |-> x]

\* Math.sqrt(variance) with no fallback
SqrtOnly(variance) == Sqrt(variance)

\* Math.sqrt(variance) || 1
SqrtOrOne(variance) == IF Gt(variance, Num(0)) THEN Sqrt(variance) ELSE Sqrt(Num(1))

\* mutant: the mean divided by vals.length
DistributionUnguarded(vals) ==
    [mean |-> Div(SumSeq(vals), Num(Len(vals))), std |-> SqrtOrOne(Num(0))]

\* the (mean, std) of the samples of one category
Distribution(vals) ==
    LET n == Len(vals)
        mean == Div(SumSeq(vals), Num(IF n > 1 THEN n ELSE 1))
        variance == IF n > 1
                    THEN Div(SumSeq([i \in DOMAIN vals |->
                                        Mul(Sub(vals[i], mean), Sub(vals[i], mean))]),
                             Num(n - 1))
                    ELSE Num(0)
    IN  [mean |-> mean, std |-> SqrtOrOne(variance)]

MaxLenOf(values) ==
    IF DOMAIN values = {} THEN 0
    ELSE LET k == CHOOSE x \in DOMAIN values : \A y \in DOMAIN values : Len(values[x]) >= Len(values[y])
         IN  Len(values[k])

\* the value returned: { samples, categories }
SimulationResult(values) ==
    [samples |-> MaxLenOf(values),
     categories |-> [k \in DOMAIN values |-> Distribution(values[k])]]

----------------------------------------------------------------------------
(* Properties of the Stat Aggregator *)

\* the state right after assignPlayersToSlots, after computeRosterTotalsFromSlots
Assigned == phase = "assigned"
Totalled == phase = "totalled"

\* the occupied slots whose player has (or has not) the hitter role
OccupiedSlots(hitters) ==
    {i \in DOMAIN assigned :
        /\ assigned[i].player # null
        /\ (assigned[i].player.hitterOrPitcher = "hitter") = hitters}

\* w: the bench multiplier in a bench slot, 1 in any other slot
SlotWeight(i) == IF assigned[i].label.base = "BN" THEN benchMultiplier ELSE Num(1)

\* sum of w * field over a set of slots, an absent field counting as 0
RECURSIVE WeightedSum(_, _)
WeightedSum(S, k) ==
    IF S = {} THEN Num(0)
    ELSE LET i == CHOOSE x \in S : TRUE
             v == IF k \in DOMAIN assigned[i].player.num
                  THEN assigned[i].player.num[k] ELSE Num(0)
         IN  Add(Mul(SlotWeight(i), v), WeightedSum(S \ {i}, k))

WH(k) == WeightedSum(OccupiedSlots(TRUE), k)
WP(k) == WeightedSum(OccupiedSlots(FALSE), k)

AvgDen == WH("AB")
AvgNum == WH("H")
ObpDen == Add(Add(Add(WH("AB"), WH("BB")), WH("HBP")), WH("SF"))
ObpNum == Add(Add(WH("H"), WH("BB")), WH("HBP"))
PitDen == WP("IP")
EraNum == Mul(Num(9), WP("ER"))
WhipNum == Add(WP("BBA"), WP("HA"))

\* the roster is exactly players x and y, both in starting slots
StartersAre(x, y) ==
    /\ {assigned[i].player.playerId : i \in OccupiedSlots(TRUE) \cup OccupiedSlots(FALSE)} = {x, y}
    /\ \A i \in DOMAIN assigned : assigned[i].player # null => assigned[i].label.base # "BN"

\* C1: every ratio category of the totals is the weighted numerator sum divided by
\* the weighted denominator sum over the players of the matching role, w being the
\* bench multiplier in a bench slot and 1 elsewhere; it is never the mean of the
\* players' own ratios (AB=1/H=1 with AB=999/H=0 gives AVG 1/1000).
C1_RatioIsSumOverSum ==
    Totalled =>
        /\ Gt(AvgDen, Num(0)) => Mul(totals["AVG"], AvgDen) = AvgNum
        /\ Gt(ObpDen, Num(0)) => Mul(totals["OBP"], ObpDen) = ObpNum
        /\ Gt(PitDen, Num(0)) => Mul(totals["ERA"], PitDen) = EraNum
        /\ Gt(PitDen, Num(0)) => Mul(totals["WHIP"], PitDen) = WhipNum
        /\ StartersAre("a", "b") => totals["AVG"] = Rat(1, 1000)

C1_Witness ==
    /\ Totalled
    /\ StartersAre("a", "b")
    /\ totals["AVG"] = Rat(1, 1000)
    /\ totals["AVG"] # Rat(1, 2)

\* C2: the aggregator never divides by zero: every total is a finite number, an
\* absent field counts as 0, and a ratio whose summed denominator is 0 is exactly 0.
C2_NoDivisionByZero ==
    Totalled =>
        /\ \A k \in TotalsKeys : IsFinite(totals[k])
        /\ \A k \in HitterFields : totals[k] = WH(k)
        /\ \A k \in PitcherFields : totals[k] = WP(k)
        /\ AvgDen = Num(0) => totals["AVG"] = Num(0)
        /\ ObpDen = Num(0) => totals["OBP"] = Num(0)
        /\ PitDen = Num(0) => totals["ERA"] = Num(0) /\ totals["WHIP"] = Num(0)

\* a hitter without any projection field is on the roster and there is no pitcher
C2_Witness ==
    /\ Totalled
    /\ \E i \in OccupiedSlots(TRUE) : assigned[i].player.num = NoFields
    /\ OccupiedSlots(FALSE) = {}
    /\ totals["AVG"] = Num(0) /\ totals["ERA"] = Num(0)

----------------------------------------------------------------------------
(* Properties of the Roster Assigner *)

Placed(p) == \E i \in DOMAIN assigned : assigned[i].player = p

\* the slots after the first n players of the sorted list have had their turn
AfterTurns(n) ==
    PlaceAll(expandRosterSlots(rosterConfig), SubSeq(SortPlayers(draftedPlayers), 1, n))

\* C3: the output has exactly the template's slots in the template's order, no
\* player is in two slots, and no slot takes a second player once it holds one.
C3_NoDoubleAssignment ==
    Assigned =>
        /\ Len(assigned) = Len(rosterConfig)
        /\ \A i \in DOMAIN assigned :
              /\ assigned[i].label = rosterConfig[i].label
              /\ assigned[i].eligiblePositions = rosterConfig[i].eligiblePositions
              /\ assigned[i].player # null => assigned[i].player \in Range(draftedPlayers)
        /\ \A i, j \in DOMAIN assigned :
              (i # j /\ assigned[i].player # null) => assigned[i].player # assigned[j].player
        /\ AfterTurns(Len(draftedPlayers)) = assigned
        /\ \A n \in 0..(Len(draftedPlayers) - 1) : \A i \in DOMAIN assigned :
              AfterTurns(n)[i].player # null =>
                  AfterTurns(n + 1)[i].player = AfterTurns(n)[i].player

\* three players compete for fewer eligible slots than players
C3_Witness ==
    /\ Assigned
    /\ Len(draftedPlayers) = 3
    /\ Cardinality({i \in DOMAIN assigned : assigned[i].player # null}) = 2
    /\ \E i, j \in DOMAIN draftedPlayers :
          i # j /\ Placed(draftedPlayers[i]) /\ ~Placed(draftedPlayers[j])

\* the players that hold a slot, in slot order
RECURSIVE PlacedInSlotOrder(_, _)
PlacedInSlotOrder(slots, i) ==
    IF i > Len(slots) THEN <<>>
    ELSE (IF slots[i].player # null THEN <<slots[i].player>> ELSE <<>>)
         \o PlacedInSlotOrder(slots, i + 1)

\* C4: every permutation of the input list gives the same assignment, and the
\* assigner run again on the players it placed gives the same assignment.
C4_OrderIndependentIdempotent ==
    Assigned =>
        /\ \A perm \in InputLists :
              Range(perm) = Range(draftedPlayers) =>
                  assignPlayersToSlots(perm, expandRosterSlots(rosterConfig)) = assigned
        /\ assignPlayersToSlots(PlacedInSlotOrder(assigned, 1),
                                expandRosterSlots(rosterConfig)) = assigned

\* C5: every occupied slot holds a player whose positions intersect the slot's
\* eligible positions.
C5_EligibilityRespected ==
    Assigned =>
        \A i \in DOMAIN assigned :
            assigned[i].player # null => PositionsIntersect(assigned[i].player, assigned[i])

\* the input list without the players that were left unassigned
PlacedInputs == SelectSeq(draftedPlayers, LAMBDA p : Placed(p))

TurnOrder == SortPlayers(draftedPlayers)

\* the sort key of a player: overallRank, then ADP, 999999 when absent
KeyAtMost(a, b) ==
    LET ar == IF "overallRank" \in DOMAIN a.num THEN a.num["overallRank"] ELSE Num(999999)
        br == IF "overallRank" \in DOMAIN b.num THEN b.num["overallRank"] ELSE Num(999999)
        aa == IF "ADP" \in DOMAIN a.num THEN a.num["ADP"] ELSE Num(999999)
        ba == IF "ADP" \in DOMAIN b.num THEN b.num["ADP"] ELSE Num(999999)
    IN  Lt(ar, br) \/ (ar = br /\ Le(aa, ba))

\* the priority class of a slot: 3 bench, 2 UTIL and P, 1 a specific position
PriorityClass(slot) ==
    IF slot.label.base = "BN" THEN 3
    ELSE IF slot.label.base \in {"UTIL", "P"} THEN 2
    ELSE 1

\* slot a is at least as good a choice as slot b
ChoiceAtMost(a, b) ==
    \/ PriorityClass(a) < PriorityClass(b)
    \/ /\ PriorityClass(a) = PriorityClass(b)
       /\ Len(a.eligiblePositions) <= Len(b.eligiblePositions)

\* the empty slots of before the player is eligible for
Offered(before, player) ==
    {i \in DOMAIN before : before[i].player = null /\ eligibleForSlot(player, before[i])}

\* the turn that takes the slots from before to after follows the rule
TurnFollowsRule(before, after, player) ==
    /\ Offered(before, player) = {} => after = before
    /\ Offered(before, player) # {} =>
          \E i \in Offered(before, player) :
              /\ after = [before EXCEPT ![i].player = player]
              /\ \A j \in Offered(before, player) : ChoiceAtMost(before[i], before[j])
    /\ \A i \in DOMAIN before : before[i].player # null => assigned[i].player = before[i].player

----------------------------------------------------------------------------
(* Properties of the z-scores of the current roster *)

Scored == phase = "scored"

\* the denominator of a ratio category, from the totals
RatioDenominator(k) ==
    IF k = "AVG" THEN totals["AB"]
    ELSE IF k = "OBP" THEN Add(Add(Add(totals["AB"], totals["BB"]), totals["HBP"]), totals["SF"])
    ELSE totals["IP"]

RatioKeys == {"AVG", "OBP", "ERA", "WHIP"}

\* C10: for AVG, OBP, ERA and WHIP, when the roster's denominator (AB,
\* AB+BB+HBP+SF, IP) is 0 the z-score of the category is exactly 0 in either
\* direction, and the raw value of the category stays 0.
C10_ZeroDenominatorStabilized ==
    Scored =>
        \A k \in RatioKeys \cap DOMAIN currentZ :
            RatioDenominator(k) = Num(0) =>
                /\ currentZ[k] = Num(0)
                /\ getCategoryValue(totals, k) = Num(0)

\* a roster with a hitter and no pitcher, scored against a nonzero ERA mean with
\* ERA "lower is better": the ERA z-score is 0, the AVG one is not
C10_Witness ==
    /\ Scored
    /\ OccupiedSlots(FALSE) = {}
    /\ OccupiedSlots(TRUE) # {}
    /\ "ERA" \in DOMAIN currentZ /\ "ERA" \in DOMAIN dist
    /\ dist["ERA"].mean = Num(3)
    /\ currentZ["ERA"] = Num(0) /\ currentZ["WHIP"] = Num(0)
    /\ RatioDenominator("AVG") # Num(0) /\ currentZ["AVG"] # Num(0)

----------------------------------------------------------------------------
(* computeZScore on its own *)

ZValues == {Num(-1), Num(0), Rat(1, 4), Rat(1, 3), Num(1), Num(3), Num(850)}
ZStds == {Num(0), Rat(3, 250), Rat(1, 2), Num(1), Num(65)}

IdleEngine ==
    /\ phase = "idle"
    /\ draftedPlayers = <<>>
    /\ rosterConfig = <<>>
    /\ benchMultiplier = Num(0)
    /\ assigned = <<>>
    /\ totals = NoTotals
    /\ dist = NoDists
    /\ currentZ = NoTotals

InitZ == IdleEngine /\ zCall = NoCall /\ IdleSim /\ IdleRec /\ IdleHook

CallZScore ==
    /\ \E value \in ZValues, mean \in ZValues, std \in ZStds, direction \in {"higher", "lower"} :
          zCall' = [value |-> value, mean |-> mean, std |-> std, direction |-> direction,
                    z |-> computeZScore(value, mean, std, direction)]
    /\ UNCHANGED <<engineVars, simVars, recVars, hookVars>>

NextZ == CallZScore

SpecZ == InitZ /\ [][NextZ]_vars

\* C9: for fixed mean and std > 0 the z-score of a "lower" category strictly
\* decreases and that of a "higher" category strictly increases as the value
\* increases; z is 0 when the value equals the mean and positive exactly when the
\* roster is ahead of the mean.
C9_SignConvention ==
    (zCall.direction # "" /\ Gt(zCall.std, Num(0))) =>
        /\ \A v \in ZValues :
              Gt(v, zCall.value) =>
                  LET zv == computeZScore(v, zCall.mean, zCall.std, zCall.direction)
                  IN  IF zCall.direction = "lower" THEN Lt(zv, zCall.z) ELSE Gt(zv, zCall.z)
        /\ zCall.value = zCall.mean => zCall.z = Num(0)
        /\ Gt(zCall.z, Num(0)) <=>
              IF zCall.direction = "lower" THEN Lt(zCall.value, zCall.mean)
              ELSE Gt(zCall.value, zCall.mean)

\* a "lower" category with the value below the mean: the z-score is positive
C9_Witness ==
    /\ zCall.direction = "lower"
    /\ zCall.std = Rat(1, 2)
    /\ zCall.value = Rat(1, 4) /\ zCall.mean = Num(3)
    /\ zCall.z = Rat(11, 2)

----------------------------------------------------------------------------
(* simulateLeagueDistributions, invoked repeatedly in one process *)

MaxIterations == 2
MaxTeams == 2
MaxInvocations == 2

\* a catalog with small projections
SimPool ==
    [h1 |-> Player("h1", <<"C">>, "hitter",
                   Ranked(1, "R" :> Num(3) @@ "HR" :> Num(1) @@ "AB" :> Num(4) @@ "H" :> Num(2))),
     h2 |-> Player("h2", <<"OF">>, "hitter",
                   Ranked(2, "R" :> Num(1) @@ "SB" :> Num(1) @@ "AB" :> Num(2) @@ "H" :> Num(1))),
     h3 |-> Player("h3", <<"C", "1B">>, "hitter",
                   "ADP" :> Num(3) @@ "R" :> Num(2) @@ "AB" :> Num(4) @@ "H" :> Num(1)),
     h4 |-> Player("h4", <<"OF">>, "hitter", "R" :> Num(1)),
     p1 |-> Player("p1", <<"SP">>, "pitcher",
                   Ranked(3, "IP" :> Num(2) @@ "ER" :> Num(1) @@ "HA" :> Num(1)
                             @@ "BBA" :> Num(1) @@ "K" :> Num(5) @@ "W" :> Num(1))),
     p2 |-> Player("p2", <<"RP">>, "pitcher",
                   "IP" :> Num(1) @@ "SV" :> Num(1) @@ "K" :> Num(1))]

SimCatalogs ==
    { <<>>,
      <<SimPool.h1, SimPool.h2, SimPool.p1, SimPool.p2>>,
      <<SimPool.p2, SimPool.h3, SimPool.h1, SimPool.p1, SimPool.h2, SimPool.h4>> }

SimRosterCounts == {Counts(0, 0, 0, 0, 0, 0), Counts(1, 1, 0, 1, 0, 0), Counts(1, 0, 1, 0, 1, 1)}

\* the category definitions with only the given keys enabled
OnlyEnabled(keys) ==
    [i \in DOMAIN DEFAULT_CATEGORIES |->
        [DEFAULT_CATEGORIES[i] EXCEPT !.enabled = (DEFAULT_CATEGORIES[i].key \in keys)]]

SimSettings ==
    { [rosterConfig |-> buildRosterConfigFromCounts(c), numTeams |-> n,
       benchMultiplier |-> bm, categories |-> cats] :
        c \in SimRosterCounts, n \in 0..MaxTeams, bm \in {Num(0), Rat(1, 2)},
        cats \in {DEFAULT_CATEGORIES, OnlyEnabled({"R", "AVG", "SV"})} }

\* opts: iterations, seed (1337 by default, 42 from the hook), randomness (14 by default)
SimOpts ==
    { [iterations |-> it, seed |-> sd, randomness |-> r] :
        it \in 0..MaxIterations, sd \in {42, 1337}, r \in {0, 14} }

InitSim ==
    /\ IdleEngine
    /\ zCall = NoCall
    /\ IdleRec
    /\ IdleHook
    /\ simPc = "ready"
    /\ simArgs \in [allPlayers : SimCatalogs, settings : SimSettings, opts : SimOpts]
    /\ rngState = <<0, 0>>
    /\ iter = 0
    /\ scored = <<>>
    /\ draft = NoDraft
    /\ pick = 0
    /\ team = 0
    /\ valuesByCat = [k \in {} |-> <<>>]
    /\ simResults = <<>>

\* lines 81-93: a new generator from the seed, an empty sample list per active category
SimBegin ==
    /\ simPc \in {"ready", "returned"}
    /\ Len(simResults) < MaxInvocations
    /\ rngState' = mulberry32(simArgs.opts.seed)
    /\ valuesByCat' = [k \in activeCategories(simArgs.settings) |-> <<>>]
    /\ iter' = 0
    /\ scored' = <<>>
    /\ simPc' = "map"
    /\ UNCHANGED <<engineVars, zCall, recVars, hookVars, simArgs, draft, pick, team, simResults>>

\* line 97: the score of the next player of allPlayers
SimScore ==
    /\ simPc = "map"
    /\ iter < simArgs.opts.iterations
    /\ Len(scored) < Len(simArgs.allPlayers)
    /\ LET r == randn(rngState)
       IN  /\ rngState' = r.state
           /\ scored' = Append(scored, ScoreOf(simArgs.allPlayers[Len(scored) + 1], r.value,
                                               simArgs.opts.randomness))
    /\ UNCHANGED <<engineVars, zCall, recVars, hookVars, simPc, simArgs, iter, draft, pick, team, valuesByCat,
                   simResults>>

\* the array passed as allPlayers after line 96-99: map makes a new array, and
\* sort orders that array
allPlayersAfterSort(allPlayers, draftOrder) == allPlayers

\* lines 98-107: the draft order, and the empty teams
SimSort ==
    /\ simPc = "map"
    /\ iter < simArgs.opts.iterations
    /\ Len(scored) = Len(simArgs.allPlayers)
    /\ LET sorted == SortScored(scored)
           draftOrder == [i \in DOMAIN sorted |-> sorted[i].p]
       IN  /\ draft' = DraftStart(draftOrder, simArgs.settings.numTeams)
           /\ simArgs' = [simArgs EXCEPT
                             !.allPlayers = allPlayersAfterSort(@, draftOrder)]
    /\ pick' = 0
    /\ simPc' = "pick"
    /\ UNCHANGED <<engineVars, zCall, recVars, hookVars, rngState, iter, scored, team, valuesByCat,
                   simResults>>

totalPicks ==
    simArgs.settings.numTeams * classifyTeamTargets(simArgs.settings.rosterConfig).rosterSize

\* lines 109-142: one pick
SimPick ==
    /\ simPc = "pick"
    /\ pick < totalPicks
    /\ draft' = PickOne(draft, pick, simArgs.settings.numTeams,
                        classifyTeamTargets(simArgs.settings.rosterConfig))
    /\ pick' = pick + 1
    /\ UNCHANGED <<engineVars, zCall, recVars, hookVars, simPc, simArgs, rngState, iter, scored, team,
                   valuesByCat, simResults>>

\* line 144: the picks are over, the loop over the teams starts
SimPicksDone ==
    /\ simPc = "pick"
    /\ pick >= totalPicks
    /\ team' = 0
    /\ simPc' = "sample"
    /\ UNCHANGED <<engineVars, zCall, recVars, hookVars, simArgs, rngState, iter, scored, draft, pick,
                   valuesByCat, simResults>>

\* lines 145-150: the totals of team t, one sample pushed per active category
SimSample ==
    /\ simPc = "sample"
    /\ team < simArgs.settings.numTeams
    /\ LET teamTotals == TeamTotals(draft.teams[team + 1], simArgs.settings)
       IN  valuesByCat' = [k \in DOMAIN valuesByCat |->
                              Append(valuesByCat[k], getCategoryValue(teamTotals, k))]
    /\ team' = team + 1
    /\ UNCHANGED <<engineVars, zCall, recVars, hookVars, simPc, simArgs, rngState, iter, scored, draft, pick,
                   simResults>>

\* line 95: iter++
SimNextIter ==
    /\ simPc = "sample"
    /\ team >= simArgs.settings.numTeams
    /\ iter' = iter + 1
    /\ scored' = <<>>
    /\ simPc' = "map"
    /\ UNCHANGED <<engineVars, zCall, recVars, hookVars, simArgs, rngState, draft, pick, team, valuesByCat,
                   simResults>>

\* lines 154-169: the mean and std of every active category, and the return
SimReturn ==
    /\ simPc = "map"
    /\ iter >= simArgs.opts.iterations
    /\ simResults' = Append(simResults, SimulationResult(valuesByCat))
    /\ simPc' = "returned"
    /\ UNCHANGED <<engineVars, zCall, recVars, hookVars, simArgs, rngState, iter, scored, draft, pick, team,
                   valuesByCat>>

NextSim ==
    \/ SimBegin \/ SimScore \/ SimSort \/ SimPick \/ SimPicksDone
    \/ SimSample \/ SimNextIter \/ SimReturn

SpecSim == InitSim /\ [][NextSim]_vars

Returned == simPc = "returned"

LastResult == simResults[Len(simResults)]

\* C7: invocations of simulateLeagueDistributions with the same catalog,
\* settings, seed, iteration count and randomness, run one after the other in
\* the same process, all return the same samples count and the same
\* (mean, std) for every category.
C7_Deterministic ==
    \A i, j \in DOMAIN simResults :
        /\ simResults[i].samples = simResults[j].samples
        /\ simResults[i].categories = simResults[j].categories

\* two invocations returned; the generator was consumed, the noise was in play
\* and a category has a spread of its own
C7_Witness ==
    /\ Len(simResults) = 2
    /\ simArgs.opts.randomness = 14
    /\ rngState # mulberry32(simArgs.opts.seed)
    /\ simResults[1].samples = 4
    /\ \E k \in DOMAIN simResults[1].categories :
          simResults[1].categories[k].std # Sqrt(Num(1))

\* the keys of the enabled categories of the settings
EnabledKeys ==
    {k \in CategoryKeys :
        \E i \in DOMAIN simArgs.settings.categories :
            simArgs.settings.categories[i].key = k /\ simArgs.settings.categories[i].enabled}

\* the sample variance, divisor n - 1: (sum of squares - (sum)^2 / n) / (n - 1)
SampleVariance(vals) ==
    LET n == Len(vals)
        sum == SumSeq(vals)
        squares == SumSeq([i \in DOMAIN vals |-> Mul(vals[i], vals[i])])
    IN  Div(Sub(squares, Div(Mul(sum, sum), Num(n))), Num(n - 1))

\* C8: the result holds one distribution per enabled category and none for a
\* disabled one; every std is strictly positive: it is the square root of the
\* sample variance (divisor n - 1) when there are at least two samples and
\* that is not 0, and exactly 1 otherwise.
C8_StdPositive ==
    Returned =>
        /\ DOMAIN LastResult.categories = EnabledKeys
        /\ \A k \in EnabledKeys :
              LET vals == valuesByCat[k]
                  std == LastResult.categories[k].std
              IN  /\ Gt(std.squared, Num(0))
                  /\ IF Len(vals) > 1 /\ SampleVariance(vals) # Num(0)
                     THEN std = Sqrt(SampleVariance(vals))
                     ELSE std = Sqrt(Num(1))

\* a result with a disabled category left out, a category whose samples differ
\* and a category whose samples are all equal
C8_Witness ==
    /\ Returned
    /\ EnabledKeys # CategoryKeys
    /\ \E k \in EnabledKeys :
          /\ Len(valuesByCat[k]) > 1
          /\ \E i, j \in DOMAIN valuesByCat[k] : valuesByCat[k][i] # valuesByCat[k][j]
          /\ LastResult.categories[k].std \notin {Sqrt(Num(0)), Sqrt(Num(1))}
    /\ \E k \in EnabledKeys :
          /\ Len(valuesByCat[k]) > 1
          /\ \A i, j \in DOMAIN valuesByCat[k] : valuesByCat[k][i] = valuesByCat[k][j]
          /\ LastResult.categories[k].std = Sqrt(Num(1))

----------------------------------------------------------------------------
(* The Recommendation Engine (recommendations.ts) *)

\* POSITION_SCARCITY_BONUS[pos] ?? 0
POSITION_SCARCITY_BONUS(pos) ==
    CASE pos = "C" -> Rat(15, 100) [] pos = "SS" -> Rat(8, 100) [] pos = "2B" -> Rat(5, 100)
      [] pos = "3B" -> Rat(3, 100) [] pos = "SP" -> Rat(5, 100) [] pos = "RP" -> Rat(2, 100)
      [] pos = "DH" -> Rat(-5, 100) [] OTHER -> Num(0)

\* Math.max, Math.min: NaN when an argument is
MaxNum(a, b) == IF ~IsFinite(a) \/ ~IsFinite(b) THEN NaN ELSE IF Gt(b, a) THEN b ELSE a
MinNum(a, b) == IF ~IsFinite(a) \/ ~IsFinite(b) THEN NaN ELSE IF Lt(b, a) THEN b ELSE a

clamp01(value) ==
    IF ~IsFinite(value) THEN Num(0) ELSE MaxNum(Num(0), MinNum(Num(1), value))

\* player.risk ?? 0.3
RiskOrDefault(p) == IF "risk" \in DOMAIN p.num THEN p.num["risk"] ELSE Rat(3, 10)

\* the factor applyRiskForScoring multiplies the projections by
RiskScale(r, t) ==
    LET floorScale == Sub(Num(1), Mul(r, Rat(28, 100)))
        ceilScale == Add(Num(1), Mul(r, Rat(10, 100)))
    IN  Add(floorScale, Mul(Sub(ceilScale, floorScale), t))

AbsNum(x) == IF x.n < 0 THEN [n |-> -x.n, d |-> x.d] ELSE x

applyRiskForScoring(p, riskTolerance) ==
    LET scale == RiskScale(clamp01(RiskOrDefault(p)), clamp01(riskTolerance))
        keys == IF p.hitterOrPitcher = "hitter" THEN HitterFields ELSE PitcherFields
    IN  IF Lt(AbsNum(Sub(scale, Num(1))), Rat(1, 1000000)) THEN p
        ELSE [p EXCEPT !.num = [k \in DOMAIN p.num |->
                                   IF k \in keys /\ IsFinite(p.num[k])
                                   THEN Mul(p.num[k], scale) ELSE p.num[k]]]

\* the object passed as player after the call: the fields are scaled on the
\* copy { ...player } of line 56
playerAfterScoring(p, riskTolerance) == p

\* slot.player === null && player.positions.some((pos) => slot.eligiblePositions.includes(pos))
Fillable(p, slot) ==
    /\ slot.player = null
    /\ \E i \in DOMAIN p.positions, j \in DOMAIN slot.eligiblePositions :
          p.positions[i] = slot.eligiblePositions[j]

canFillSlot(p, openSlots) == \E i \in DOMAIN openSlots : Fillable(p, openSlots[i])

RECURSIVE MaxBonus(_, _)
MaxBonus(positions, i) ==
    IF i > Len(positions) THEN Num(0)
    ELSE MaxNum(MaxBonus(positions, i + 1), POSITION_SCARCITY_BONUS(positions[i]))

positionScarcityScore(p, openSlots) ==
    LET fillableSlots == {i \in DOMAIN openSlots : Fillable(p, openSlots[i])}
        positionSlots == {i \in fillableSlots : openSlots[i].label.base \notin {"BN", "UTIL"}}
        bonus == MaxBonus(p.positions, 1)
        last == IF Cardinality(positionSlots) = 1 THEN Rat(1, 10) ELSE Num(0)
        benchOnly == IF fillableSlots # {} /\ \A i \in fillableSlots : openSlots[i].label.base = "BN"
                     THEN Rat(1, 10) ELSE Num(0)
    IN  Sub(Add(bonus, last), benchOnly)

\* mutant: the deficit is not capped at 2.5
CategoryWeightUncapped(z, threshold) ==
    LET deficit == Sub(threshold, z)
        boost == IF Gt(deficit, Num(0))
                 THEN Add(Num(1), Mul(Rat(55, 100), deficit)) ELSE Num(1)
        dampen == IF Gt(z, Add(threshold, Rat(3, 2))) THEN Rat(3, 4) ELSE Num(1)
    IN  MaxNum(Rat(4, 10), MinNum(Rat(28, 10), Mul(boost, dampen)))

\* the weight of a category whose current z-score is z
CategoryWeight(z, threshold) ==
    LET deficit == Sub(threshold, z)
        boost == IF Gt(deficit, Num(0))
                 THEN Add(Num(1), Mul(Rat(55, 100), MinNum(deficit, Rat(5, 2)))) ELSE Num(1)
        dampen == IF Gt(z, Add(threshold, Rat(3, 2))) THEN Rat(3, 4) ELSE Num(1)
    IN  MaxNum(Rat(4, 10), MinNum(Rat(28, 10), Mul(boost, dampen)))

computeCategoryWeights(zScores, threshold) ==
    [k \in DOMAIN zScores |-> CategoryWeight(zScores[k], threshold)]

\* settings.categories.filter((c) => c.enabled)
ActiveOf(categories) == SelectSeq(categories, LAMBDA c : c.enabled)

\* lines 159-182: the pass over the current roster
CurrentRoster(args, template) ==
    LET currentAssigned == assignPlayersToSlots(args.myDraftedPlayers, template)
        currentTotals == computeRosterTotalsFromSlots(currentAssigned, args.settings.benchMultiplier)
        currentZScores == CurrentZScores(currentTotals, args.settings.categories,
                                         args.leagueDists, args.settings.targets)
    IN  [currentAssigned |-> currentAssigned,
         openSlots |-> getOpenSlots(currentAssigned),
         currentTotals |-> currentTotals,
         currentZScores |-> currentZScores,
         catWeights |-> computeCategoryWeights(currentZScores,
                                               args.settings.competitiveThresholdZ)]

\* the { before, after, delta } of the z-score of one category
Impact(before, after) == [before |-> before, after |-> after, delta |-> Sub(after, before)]

\* the sum over the active categories of delta * weight
RECURSIVE WeightedGain(_, _, _, _)
WeightedGain(active, i, categoryImpact, catWeights) ==
    IF i > Len(active) THEN Num(0)
    ELSE Add(Mul(categoryImpact[active[i].key].delta, catWeights[active[i].key]),
             WeightedGain(active, i + 1, categoryImpact, catWeights))

\* lines 231-240: the early draft bonus
EarlyDraftBonus(categoryImpact, numActive, numDrafted, numSlots) ==
    LET rosterFillPct == Div(Num(numDrafted), Num(numSlots))
        categoriesHelped ==
            Cardinality({k \in DOMAIN categoryImpact : Gt(categoryImpact[k].delta, Rat(2, 100))})
    IN  IF Lt(rosterFillPct, Rat(3, 10))
        THEN Mul(Mul(Div(Num(categoriesHelped), Num(numActive)), Rat(3, 10)),
                 Sub(Num(1), rosterFillPct))
        ELSE Num(0)

\* mutant: the risk preference computed with the coefficients exchanged
RiskPreferenceSwapped(p, riskTolerance) ==
    LET playerRisk == clamp01(RiskOrDefault(p))
    IN  Sub(Mul(Mul(playerRisk, riskTolerance), Rat(55, 100)),
            Mul(Mul(playerRisk, Sub(Num(1), riskTolerance)), Rat(12, 100)))

\* lines 242-246: upsideBonus - conservativePenalty
RiskPreference(p, riskTolerance) ==
    LET playerRisk == clamp01(RiskOrDefault(p))
        conservativePenalty == Mul(Mul(playerRisk, Sub(Num(1), riskTolerance)), Rat(55, 100))
        upsideBonus == Mul(Mul(playerRisk, riskTolerance), Rat(12, 100))
    IN  Sub(upsideBonus, conservativePenalty)

\* if (player.ADP): the field is present and not 0
HasADP(p) == "ADP" \in DOMAIN p.num /\ IsFinite(p.num["ADP"]) /\ p.num["ADP"] # Num(0)

\* lines 256-261; currentOverallPick is 0 when it is not supplied
ReachPenalty(p, currentOverallPick) ==
    LET adpDiff == Sub(p.num["ADP"], Num(currentOverallPick))
    IN  IF currentOverallPick # 0 /\ Gt(adpDiff, Num(20))
        THEN MinNum(Rat(25, 100), Mul(Div(Sub(adpDiff, Num(20)), Num(80)), Rat(2, 10)))
        ELSE Num(0)

\* lines 248-262: adpBonus less the reach penalty
AdpAwareness(p, currentOverallPick) ==
    IF HasADP(p)
    THEN Sub(Mul(MaxNum(Num(0), Div(Sub(Num(150), p.num["ADP"]), Num(150))), Rat(1, 2)),
             ReachPenalty(p, currentOverallPick))
    ELSE Num(0)

\* the body of the loop over availablePlayers (lines 188-282): the
\* Recommendation pushed on scored, or nothing when the player is skipped
ScoreCandidate(p, args, template, cur) ==
    LET scoringPlayer == applyRiskForScoring(p, args.riskTolerance)
        nextAssigned == assignPlayersToSlots(Append(args.myDraftedPlayers, scoringPlayer), template)
        isAssigned == \E i \in DOMAIN nextAssigned :
                          /\ nextAssigned[i].player # null
                          /\ nextAssigned[i].player.playerId = scoringPlayer.playerId
        newTotals == computeRosterTotalsFromSlots(nextAssigned, args.settings.benchMultiplier)
        active == ActiveOf(args.settings.categories)
        newZ == CurrentZScores(newTotals, args.settings.categories, args.leagueDists,
                               args.settings.targets)
        categoryImpact == [k \in DOMAIN newZ |-> Impact(cur.currentZScores[k], newZ[k])]
        rawImpact == [k \in DOMAIN newZ |->
                         Impact(getCategoryValue(cur.currentTotals, k),
                                getCategoryValue(newTotals, k))]
        gain == Add(Add(Add(Add(WeightedGain(active, 1, categoryImpact, cur.catWeights),
                                positionScarcityScore(p, cur.openSlots)),
                            EarlyDraftBonus(categoryImpact, Len(active),
                                            Len(args.myDraftedPlayers), Len(template))),
                        RiskPreference(p, args.riskTolerance)),
                    AdpAwareness(p, args.currentOverallPick))
    IN  IF Len(cur.openSlots) > 0 /\ ~canFillSlot(p, cur.openSlots) THEN <<>>
        ELSE IF ~isAssigned THEN <<>>
        ELSE <<[player |-> p, totalZGain |-> gain, categoryImpact |-> categoryImpact,
                rawImpact |-> rawImpact]>>

\* scored.sort((a, b) => b.totalZGain - a.totalZGain), a stable sort; a
\* comparison with NaN leaves the two in place
RECURSIVE InsertRecommendation(_, _)
InsertRecommendation(x, sorted) ==
    IF sorted = <<>> THEN <<x>>
    ELSE IF Gt(x.totalZGain, sorted[1].totalZGain) THEN <<x>> \o sorted
    ELSE <<sorted[1]>> \o InsertRecommendation(x, Tail(sorted))

RECURSIVE SortRecommendations(_)
SortRecommendations(s) ==
    IF s = <<>> THEN <<>>
    ELSE InsertRecommendation(s[Len(s)], SortRecommendations(SubSeq(s, 1, Len(s) - 1)))

\* lines 285-288: sort, then slice(0, topN), topN >= 0
TopSorted(s, topN) ==
    SubSeq(SortRecommendations(s), 1, IF topN < Len(s) THEN topN ELSE Len(s))

----------------------------------------------------------------------------
(* getRecommendations, one invocation *)

\* the candidates and the players already held
RecPool ==
    [cC  |-> Player("cC", <<"C">>, "hitter",
                    Ranked(1, "risk" :> Num(0) @@ "R" :> Num(65) @@ "HR" :> Num(30)
                              @@ "AB" :> Num(400) @@ "H" :> Num(100))),
     c1B |-> Player("c1B", <<"1B">>, "hitter",
                    Ranked(1, "risk" :> Num(0) @@ "R" :> Num(65) @@ "HR" :> Num(30)
                              @@ "AB" :> Num(400) @@ "H" :> Num(100))),
     a5  |-> Player("a5", <<"OF">>, "hitter",
                    "risk" :> Rat(3, 2) @@ "ADP" :> Num(5) @@ "R" :> Num(65)),
     a200 |-> Player("a200", <<"OF">>, "hitter",
                     "risk" :> Rat(3, 2) @@ "ADP" :> Num(200) @@ "R" :> Num(65)),
     r9  |-> Player("r9", <<"OF">>, "hitter",
                    Ranked(5, "risk" :> Rat(9, 10) @@ "R" :> Num(100) @@ "SB" :> Num(50))),
     r0  |-> Player("r0", <<"OF">>, "hitter", Ranked(6, "risk" :> Num(0) @@ "R" :> Num(100))),
     pm  |-> Player("pm", <<"SP">>, "pitcher", NoFields),
     px  |-> Player("px", <<"RP">>, "pitcher",
                    Ranked(3, "risk" :> Num(0) @@ "ADP" :> Num(30) @@ "IP" :> Num(100) @@ "ER" :> Num(30)
                              @@ "K" :> Num(120) @@ "SV" :> Num(20))),
     cDH |-> Player("cDH", <<"DH">>, "hitter",
                    Ranked(4, "risk" :> Num(0) @@ "R" :> Num(80) @@ "HR" :> Num(35))),
     d1  |-> Player("d1", <<"C">>, "hitter",
                    Ranked(2, "risk" :> Num(0) @@ "R" :> Num(130) @@ "AB" :> Num(500) @@ "H" :> Num(150))),
     d2  |-> Player("d2", <<"1B">>, "hitter", "R" :> Num(20)),
     d3  |-> Player("d3", <<"OF">>, "hitter", "ADP" :> Num(100) @@ "R" :> Num(10))]

RecAvailable ==
    { <<>>,
      <<RecPool.cC, RecPool.c1B>>,
      <<RecPool.a200, RecPool.a5>>,
      <<RecPool.r9, RecPool.r0>>,
      <<RecPool.cDH>>,
      <<RecPool.pm, RecPool.px, RecPool.cC>>,
      <<RecPool.a5, RecPool.c1B, RecPool.r9>> }

RecDrafted ==
    { <<>>, <<RecPool.d1>>, <<RecPool.d3>>, <<RecPool.d1, RecPool.d2>> }

RecRosterCounts ==
    { Counts(0, 0, 0, 0, 0, 0),
      Counts(1, 0, 0, 0, 0, 0),
      [Counts(1, 0, 0, 0, 0, 0) EXCEPT !.B1 = 1],
      [Counts(2, 0, 1, 0, 0, 1) EXCEPT !.B1 = 1],
      Counts(0, 1, 0, 1, 1, 1),
      [Counts(1, 2, 1, 1, 0, 2) EXCEPT !.B1 = 1] }

RecSettings ==
    { [rosterConfig |-> buildRosterConfigFromCounts(c), benchMultiplier |-> Rat(1, 5),
       categories |-> cats, targets |-> DEFAULT_TARGETS, competitiveThresholdZ |-> th] :
        c \in RecRosterCounts, th \in {Num(0), Rat(1, 2)},
        cats \in {OnlyEnabled({}), OnlyEnabled({"R", "SB", "K"}), OnlyEnabled({"R", "AVG", "ERA"})} }

RecDists == {NoDists, [k \in CategoryKeys |-> [mean |-> Rat(1, 4), std |-> Rat(1, 2)]]}

RiskTolerances == {Num(0), Rat(1, 2), Num(1)}

\* currentOverallPick: 0 stands for a pick number that is not supplied
OverallPicks == {0, 5}

TopNs == {0, 1, 10}

\* the invocations taken: a pick number goes with candidates that have an ADP,
\* a topN other than the hook's 10 with the plain call, a threshold other than
\* the default 0 with distributions and the hook's other defaults
RecCase(args) ==
    /\ args.currentOverallPick # 0 =>
          \E i \in DOMAIN args.availablePlayers : HasADP(args.availablePlayers[i])
    /\ args.topN # 10 => (args.leagueDists = NoDists /\ args.currentOverallPick = 0)
    /\ args.settings.competitiveThresholdZ # Num(0) =>
          /\ args.leagueDists # NoDists
          /\ args.riskTolerance = Rat(1, 2)
          /\ args.currentOverallPick = 0
          /\ args.topN = 10

InitRec ==
    /\ IdleEngine
    /\ zCall = NoCall
    /\ IdleSim
    /\ IdleHook
    /\ recPc = "ready"
    /\ recArgs \in [availablePlayers : RecAvailable, myDraftedPlayers : RecDrafted,
                    settings : RecSettings, leagueDists : RecDists,
                    riskTolerance : RiskTolerances, currentOverallPick : OverallPicks,
                    topN : TopNs]
    /\ RecCase(recArgs)
    /\ recEmptySlots = <<>>
    /\ recCurrent = NoCurrent
    /\ recIndex = 0
    /\ recScored = <<>>
    /\ recommendations = <<>>

\* lines 155-185
RecBegin ==
    /\ recPc = "ready"
    /\ recEmptySlots' = emptySlotsAfterAssign(recArgs.myDraftedPlayers,
                                              expandRosterSlots(recArgs.settings.rosterConfig))
    /\ recArgs' = [recArgs EXCEPT !.myDraftedPlayers = draftedPlayersAfterAssign(@)]
    /\ recCurrent' = CurrentRoster(recArgs, expandRosterSlots(recArgs.settings.rosterConfig))
    /\ recIndex' = 0
    /\ recScored' = <<>>
    /\ recPc' = "loop"
    /\ UNCHANGED <<engineVars, zCall, simVars, hookVars, recommendations>>

\* lines 187-283: the next player of availablePlayers
RecCandidate ==
    /\ recPc = "loop"
    /\ recIndex < Len(recArgs.availablePlayers)
    /\ recScored' = recScored \o ScoreCandidate(recArgs.availablePlayers[recIndex + 1], recArgs,
                                                recEmptySlots, recCurrent)
    /\ LET candidate == recArgs.availablePlayers[recIndex + 1]
           skipped == Len(recCurrent.openSlots) > 0 /\ ~canFillSlot(candidate, recCurrent.openSlots)
           scoringPlayer == applyRiskForScoring(candidate, recArgs.riskTolerance)
       IN  IF skipped
           THEN UNCHANGED <<recArgs, recEmptySlots>>
           ELSE /\ recArgs' = [recArgs EXCEPT
                                  !.availablePlayers[recIndex + 1] =
                                      playerAfterScoring(@, recArgs.riskTolerance)]
                /\ recEmptySlots' =
                       emptySlotsAfterAssign(Append(recArgs.myDraftedPlayers, scoringPlayer),
                                             recEmptySlots)
    /\ recIndex' = recIndex + 1
    /\ UNCHANGED <<engineVars, zCall, simVars, hookVars, recPc, recCurrent, recommendations>>

\* lines 285-288
RecReturn ==
    /\ recPc = "loop"
    /\ recIndex >= Len(recArgs.availablePlayers)
    /\ recommendations' = TopSorted(recScored, recArgs.topN)
    /\ recPc' = "returned"
    /\ UNCHANGED <<engineVars, zCall, simVars, hookVars, recArgs, recEmptySlots, recCurrent,
                   recIndex, recScored>>

NextRec == RecBegin \/ RecCandidate \/ RecReturn

SpecRec == InitRec /\ [][NextRec]_vars

----------------------------------------------------------------------------
(* Properties of getRecommendations *)

RecReturned == recPc = "returned"

\* C11: the list getRecommendations returns is sorted in non-increasing order
\* of totalZGain and holds exactly min(topN, number of scored candidates)
\* entries.
C11_SortedTopN ==
    RecReturned =>
        /\ \A i, j \in DOMAIN recommendations :
              i < j => Ge(recommendations[i].totalZGain, recommendations[j].totalZGain)
        /\ Len(recommendations) =
              (IF recArgs.topN < Len(recScored) THEN recArgs.topN ELSE Len(recScored))

\* the slots of the current roster that are open and take the player, by the
\* positions of the slot and by the assigner's rule
OpenSlotFor(p) ==
    \E i \in DOMAIN recCurrent.currentAssigned :
        /\ recCurrent.currentAssigned[i].player = null
        /\ (PositionsIntersect(p, recCurrent.currentAssigned[i])
            \/ eligibleForSlot(p, recCurrent.currentAssigned[i]))

\* C12: every candidate returned has at least one slot that is open in the
\* current roster and eligible for it; candidates without one are left out.
C12_ReturnedHaveOpenSlot ==
    RecReturned => \A i \in DOMAIN recommendations : OpenSlotFor(recommendations[i].player)

\* the totalZGain the scored candidate with this id got
GainOf(id) ==
    LET i == CHOOSE j \in DOMAIN recScored : recScored[j].player.playerId = id
    IN  recScored[i].totalZGain

WasScored(id) == \E j \in DOMAIN recScored : recScored[j].player.playerId = id

\* C13 (scenario B): cC and c1B have the same projections, rank, ADP and
\* risk, cC is catcher-eligible and c1B is first base only; in every roster
\* state the totalZGain of cC is at least 0.15 above that of c1B.
C13_CatcherScarcity ==
    (WasScored("cC") /\ WasScored("c1B")) =>
        Ge(Sub(GainOf("cC"), GainOf("c1B")), Rat(15, 100))

\* max(0, (150 - 5) / 150) * 0.5 - max(0, (150 - 200) / 150) * 0.5
EliteDifferential == Sub(Mul(Rat(145, 150), Rat(1, 2)), Num(0))

\* the candidates of this invocation that carry an ADP
WithADP == {recArgs.availablePlayers[i] : i \in DOMAIN recArgs.availablePlayers} \cap
           {p \in {RecPool[k] : k \in DOMAIN RecPool} : HasADP(p)}

\* C14 (scenario C): a5 and a200 differ in ADP only (5 and 200); scored with
\* current overall pick 5, the totalZGain of a5 exceeds that of a200 by at
\* least the elite-bonus differential, the reach penalty of a200 is 0.25, and
\* no reach penalty is applied when ADP - pick <= 20 or no pick is supplied.
C14_AdpAwareness ==
    /\ (WasScored("a5") /\ WasScored("a200") /\ recArgs.currentOverallPick = 5) =>
          /\ Ge(Sub(GainOf("a5"), GainOf("a200")), EliteDifferential)
          /\ ReachPenalty(RecPool.a200, recArgs.currentOverallPick) = Rat(1, 4)
    /\ \A p \in WithADP :
          (\/ recArgs.currentOverallPick = 0
           \/ Le(Sub(p.num["ADP"], Num(recArgs.currentOverallPick)), Num(20)))
              => ReachPenalty(p, recArgs.currentOverallPick) = Num(0)

\* risk * tolerance * 0.12 - risk * (1 - tolerance) * 0.55, the risk being 0.3
\* when the field is absent and clamped to [0, 1]
ExpectedRiskTerm(p, tol) ==
    LET given == IF "risk" \in DOMAIN p.num THEN p.num["risk"] ELSE Rat(3, 10)
        risk == IF Lt(given, Num(0)) THEN Num(0)
                ELSE IF Gt(given, Num(1)) THEN Num(1) ELSE given
    IN  Sub(Mul(Mul(risk, tol), Rat(12, 100)),
            Mul(Mul(risk, Sub(Num(1), tol)), Rat(55, 100)))

\* the candidates of this invocation
Candidates == {recArgs.availablePlayers[i] : i \in DOMAIN recArgs.availablePlayers}

\* C15 (scenario D): when getRecommendations has returned, the risk-preference
\* term of every candidate is
\* risk * tolerance * 0.12 - risk * (1 - tolerance) * 0.55 on the risk of the
\* player as given (not the scaled copy); for r9 (risk 0.9) it is -0.495 at
\* tolerance 0 and +0.108 at tolerance 1; it never decreases as the tolerance
\* increases.
C15_RiskPreference ==
    RecReturned => \A p \in Candidates :
        /\ RiskPreference(p, recArgs.riskTolerance) = ExpectedRiskTerm(p, recArgs.riskTolerance)
        /\ RiskPreference(applyRiskForScoring(p, recArgs.riskTolerance), recArgs.riskTolerance)
              = RiskPreference(p, recArgs.riskTolerance)
        /\ p.playerId = "r9" =>
              /\ RiskPreference(p, Num(0)) = Rat(-495, 1000)
              /\ RiskPreference(p, Num(1)) = Rat(108, 1000)
        /\ \A t1, t2 \in RiskTolerances :
              Le(t1, t2) => Le(RiskPreference(p, t1), RiskPreference(p, t2))

\* r9 was scored at tolerance 1 and its gain is a number
C15_Witness ==
    /\ RecReturned
    /\ WasScored("r9")
    /\ recArgs.riskTolerance = Num(1)
    /\ IsFinite(GainOf("r9"))
    /\ RiskPreference(RecPool.r9, recArgs.riskTolerance) = Rat(27, 250)

\* C19: every totalZGain getRecommendations returns, and every before, after
\* and delta of every category of every returned entry, is a finite number.
C19_AllFinite ==
    RecReturned =>
        \A i \in DOMAIN recommendations :
            /\ IsFinite(recommendations[i].totalZGain)
            /\ \A k \in DOMAIN recommendations[i].categoryImpact :
                  /\ IsFinite(recommendations[i].categoryImpact[k].before)
                  /\ IsFinite(recommendations[i].categoryImpact[k].after)
                  /\ IsFinite(recommendations[i].categoryImpact[k].delta)

----------------------------------------------------------------------------
(* The draft state (draft.ts) *)

\* the player ids of the picks, as a set
getDraftedIds(state) ==
    {state.myPicks[i].playerId : i \in DOMAIN state.myPicks}
        \cup {state.otherPicks[i] : i \in DOMAIN state.otherPicks}

\* mutant: the pick is appended whether or not the id is drafted
draftForMeUnchecked(state, playerId, now) ==
    [state EXCEPT !.myPicks = Append(@, [playerId |-> playerId, timestamp |-> now])]

\* now is the value of Date.now()
draftForMe(state, playerId, now) ==
    IF playerId \in getDraftedIds(state) THEN state
    ELSE [state EXCEPT !.myPicks = Append(@, [playerId |-> playerId, timestamp |-> now])]

draftForOther(state, playerId) ==
    IF playerId \in getDraftedIds(state) THEN state
    ELSE [state EXCEPT !.otherPicks = Append(@, playerId)]

\* mutant: the first of my picks is dropped
removeFirstMyPick(state) ==
    IF Len(state.myPicks) = 0 THEN state
    ELSE [state EXCEPT !.myPicks = Tail(@)]

removeLastMyPick(state) ==
    IF Len(state.myPicks) = 0 THEN state
    ELSE [state EXCEPT !.myPicks = SubSeq(@, 1, Len(@) - 1)]

undraftOther(state, playerId) ==
    [state EXCEPT !.otherPicks = SelectSeq(@, LAMBDA id : id # playerId)]

\* the ids the operations are called with, and the values of Date.now()
DraftIds == {"cC", "c1B", "a5", "px"}
Timestamps == {1, 2}

InitDraft ==
    /\ IdleEngine
    /\ zCall = NoCall
    /\ IdleSim
    /\ IdleRec
    /\ IdleHook

DraftForMe ==
    /\ \E id \in DraftIds, now \in Timestamps : draftState' = draftForMe(draftState, id, now)
    /\ UNCHANGED <<engineVars, zCall, simVars, recVars, hookLoaded, hookInputs, hookTimer,
                   hookChanges, storedDists, storedLog, recPass>>

DraftForOther ==
    /\ \E id \in DraftIds : draftState' = draftForOther(draftState, id)
    /\ UNCHANGED <<engineVars, zCall, simVars, recVars, hookLoaded, hookInputs, hookTimer,
                   hookChanges, storedDists, storedLog, recPass>>

RemoveLastMyPick ==
    /\ draftState' = removeLastMyPick(draftState)
    /\ UNCHANGED <<engineVars, zCall, simVars, recVars, hookLoaded, hookInputs, hookTimer,
                   hookChanges, storedDists, storedLog, recPass>>

UndraftOther ==
    /\ \E id \in DraftIds : draftState' = undraftOther(draftState, id)
    /\ UNCHANGED <<engineVars, zCall, simVars, recVars, hookLoaded, hookInputs, hookTimer,
                   hookChanges, storedDists, storedLog, recPass>>

NextDraft == DraftForMe \/ DraftForOther \/ RemoveLastMyPick \/ UndraftOther

SpecDraft == InitDraft /\ [][NextDraft]_vars

\* the ids of myPicks followed by otherPicks
PickedIds(state) ==
    [i \in DOMAIN state.myPicks |-> state.myPicks[i].playerId] \o state.otherPicks

\* C26: starting from createEmptyDraftState, after any sequence of draftForMe,
\* draftForOther, removeLastMyPick and undraftOther no player id appears more
\* than once across myPicks and otherPicks.
C26_NoDuplicateIds ==
    \A ids \in {PickedIds(draftState)} :
        \A i, j \in DOMAIN ids : ids[i] = ids[j] => i = j

\* every id is picked, two by me and two by the others, after an undo
C26_Witness ==
    /\ Len(draftState.myPicks) = 2
    /\ Len(draftState.otherPicks) = 2
    /\ draftState.myPicks[1].timestamp > draftState.myPicks[2].timestamp

\* a draft of a drafted id, and an undo with no pick of mine, return the state
RejectedLeavesState ==
    /\ \A id \in getDraftedIds(draftState) :
          /\ draftForOther(draftState, id) = draftState
          /\ \A now \in Timestamps : draftForMe(draftState, id, now) = draftState
    /\ draftState.myPicks = <<>> => removeLastMyPick(draftState) = draftState

\* each operation leaves the other list and riskTolerance alone
OtherFieldsKept ==
    \A id \in DraftIds :
        /\ \A now \in Timestamps :
              /\ draftForMe(draftState, id, now).otherPicks = draftState.otherPicks
              /\ draftForMe(draftState, id, now).riskTolerance = draftState.riskTolerance
        /\ removeLastMyPick(draftState).otherPicks = draftState.otherPicks
        /\ removeLastMyPick(draftState).riskTolerance = draftState.riskTolerance
        /\ draftForOther(draftState, id).myPicks = draftState.myPicks
        /\ draftForOther(draftState, id).riskTolerance = draftState.riskTolerance
        /\ undraftOther(draftState, id).myPicks = draftState.myPicks
        /\ undraftOther(draftState, id).riskTolerance = draftState.riskTolerance

\* an undo right after a draft that was accepted gives back myPicks
UndoRestores ==
    \A id \in DraftIds \ getDraftedIds(draftState) : \A now \in Timestamps :
        removeLastMyPick(draftForMe(draftState, id, now)).myPicks = draftState.myPicks

\* C27: a draft of an id already drafted, and an undo on empty myPicks, return
\* the state unchanged; draftForMe and removeLastMyPick never change otherPicks,
\* draftForOther and undraftOther never change myPicks, none changes
\* riskTolerance, and removeLastMyPick after a successful draftForMe restores
\* the previous myPicks.
C27_Frame == RejectedLeavesState /\ OtherFieldsKept /\ UndoRestores

\* picks of mine and of the others, with an id left to draft
C27_Witness ==
    /\ Len(draftState.myPicks) = 2
    /\ Len(draftState.otherPicks) = 1
    /\ "px" \notin getDraftedIds(draftState)

----------------------------------------------------------------------------
(* useDraftState: the effect that schedules the simulation (lines 197-211) *)

MaxChanges == 3

\* the catalogs (bundled or imported) and the settings the hook can hold
HookInputs ==
    { [allPlayers |-> c, settings |-> st] :
        c \in {"bundled", "custom"}, st \in {"default", "edited"} }

\* simulateLeagueDistributions(allPlayers, settings, { iterations: 80, seed: 42 }):
\* the value is a function of the arguments alone (C7)
HookSimulate(inputs) == [simulated |-> TRUE, from |-> inputs, iterations |-> 80, seed |-> 42]

\* mutant: the cleanup does not clear the timer
clearTimeoutNone(timers, handle) == timers

\* clearTimeout(t): the timer of that handle, when it has not fired, is dropped
clearTimeout(timers, handle) == SelectSeq(timers, LAMBDA t : t.handle # handle)

\* the players of a catalog, and the settings, the recommendations are made from
HookCatalog(name) ==
    IF name = "bundled" THEN <<RecPool.cC, RecPool.c1B, RecPool.a5>>
    ELSE IF name = "custom" THEN <<RecPool.a5, RecPool.cC>>
    ELSE <<>>

HookSettingsOf(name) ==
    [rosterConfig |->
         buildRosterConfigFromCounts(IF name = "default"
                                     THEN [Counts(2, 0, 1, 0, 0, 1) EXCEPT !.B1 = 1]
                                     ELSE Counts(1, 0, 0, 0, 0, 0)),
     benchMultiplier |-> Rat(1, 5),
     categories |-> OnlyEnabled({"R", "AVG", "ERA"}),
     targets |-> DEFAULT_TARGETS,
     competitiveThresholdZ |-> Num(0)]

\* the categories of a stored value: null, or a (mean, std) per category that
\* depends on the inputs the value was simulated from
DistsOf(stored) ==
    IF ~stored.simulated THEN NoDists
    ELSE [k \in CategoryKeys |->
             IF stored.from.settings = "default"
             THEN [mean |-> Rat(1, 4), std |-> Rat(1, 2)]
             ELSE [mean |-> Rat(1, 2), std |-> Num(1)]]

\* draft.ts lines 50-57: the players of my picks the catalog has, in pick order
RECURSIVE resolveMyRosterPlayers(_, _)
resolveMyRosterPlayers(catalog, picks) ==
    IF picks = <<>> THEN <<>>
    ELSE LET found == SelectSeq(catalog, LAMBDA p : p.playerId = picks[1].playerId)
         IN  (IF found = <<>> THEN <<>> ELSE <<found[Len(found)]>>)
                 \o resolveMyRosterPlayers(catalog, Tail(picks))

\* mutant: only my picks are taken out of the catalog
availableNotMine(catalog, state) ==
    SelectSeq(catalog, LAMBDA p :
                  p.playerId \notin {state.myPicks[i].playerId : i \in DOMAIN state.myPicks})

\* lines 230-233: allPlayers.filter((p) => !drafted.has(p.playerId))
availablePlayers(catalog, state) ==
    SelectSeq(catalog, LAMBDA p : p.playerId \notin getDraftedIds(state))

\* lines 215-218, 230-247: the arguments the recommendations memo passes
PassArgs(inputs, dists, state) ==
    [availablePlayers |-> availablePlayers(HookCatalog(inputs.allPlayers), state),
     myDraftedPlayers |-> resolveMyRosterPlayers(HookCatalog(inputs.allPlayers), state.myPicks),
     settings |-> HookSettingsOf(inputs.settings),
     leagueDists |-> DistsOf(dists),
     riskTolerance |-> state.riskTolerance,
     currentOverallPick |-> Len(state.myPicks) + Len(state.otherPicks) + 1,
     topN |-> 10]

\* lines 235-247: the recommendations memo of a render with these
\* dependencies, as the call it makes
Recommend(isLoaded, inputs, dists, state) ==
    IF ~isLoaded THEN NoPass
    ELSE [called |-> TRUE, inputs |-> inputs, dists |-> dists,
          args |-> PassArgs(inputs, dists, state)]

\* the body of the effect for the render number n with these dependencies
RunEffect(timers, isLoaded, inputs, n) ==
    IF ~isLoaded THEN timers
    ELSE Append(timers, [handle |-> n, inputs |-> inputs])

\* a render whose dependencies [allPlayers, settings, isLoaded] differ from the
\* last: the cleanup of the last effect, then the effect of this render
Commit(isLoaded, inputs) ==
    /\ hookTimer' = RunEffect(clearTimeout(hookTimer, hookChanges), isLoaded, inputs,
                              hookChanges + 1)
    /\ hookChanges' = hookChanges + 1
    /\ hookLoaded' = isLoaded
    /\ hookInputs' = inputs

InitHook ==
    /\ IdleEngine
    /\ zCall = NoCall
    /\ IdleSim
    /\ IdleRec
    /\ hookLoaded = FALSE
    /\ hookInputs \in HookInputs
    /\ hookTimer = <<>>
    /\ hookChanges = 0
    /\ storedDists = NullDists
    /\ storedLog = <<>>
    /\ draftState = createEmptyDraftState
    /\ recPass = NoPass

\* the four stores have loaded: isLoaded becomes true
HookLoad ==
    /\ ~hookLoaded
    /\ Commit(TRUE, hookInputs)
    /\ recPass' = Recommend(TRUE, hookInputs, storedDists, draftState)
    /\ UNCHANGED <<engineVars, zCall, simVars, recVars, storedDists, storedLog, draftState>>

\* the catalog or the settings change (handleUpdateSettings, lines 303-308;
\* handleImportPlayers and handleResetDataset, lines 283-297, which also reset
\* the draft)
HookChange ==
    /\ hookChanges < MaxChanges
    /\ \E inputs \in HookInputs \ {hookInputs} :
          /\ Commit(hookLoaded, inputs)
          /\ draftState' = IF inputs.allPlayers # hookInputs.allPlayers
                           THEN createEmptyDraftState ELSE draftState
          /\ recPass' = Recommend(hookLoaded, inputs, storedDists, draftState')
    /\ UNCHANGED <<engineVars, zCall, simVars, recVars, storedDists, storedLog>>

\* the callback of the timer that is due first
HookTimerFires ==
    /\ hookTimer # <<>>
    /\ storedDists' = HookSimulate(Head(hookTimer).inputs)
    /\ storedLog' = Append(storedLog, Head(hookTimer))
    /\ hookTimer' = Tail(hookTimer)
    /\ recPass' = Recommend(hookLoaded, hookInputs, storedDists', draftState)
    /\ UNCHANGED <<engineVars, zCall, simVars, recVars, hookLoaded, hookInputs, hookChanges,
                   draftState>>

\* the ids the handlers are called with
HookIds == {"cC", "c1B", "a5"}

\* the hook has loaded: the first simulation is scheduled, or its result is
\* stored, and getRecommendations is about to run for the render
InitPicks ==
    /\ IdleEngine
    /\ zCall = NoCall
    /\ IdleSim
    /\ hookLoaded = TRUE
    /\ hookInputs \in HookInputs
    /\ hookChanges = 1
    /\ \/ /\ hookTimer = RunEffect(<<>>, TRUE, hookInputs, 1)
          /\ storedDists = NullDists
          /\ storedLog = <<>>
       \/ /\ hookTimer = <<>>
          /\ storedDists = HookSimulate(hookInputs)
          /\ storedLog = RunEffect(<<>>, TRUE, hookInputs, 1)
    /\ draftState = createEmptyDraftState
    /\ recPass = Recommend(TRUE, hookInputs, storedDists, draftState)
    /\ recPc = "ready"
    /\ recArgs = recPass.args
    /\ recEmptySlots = <<>>
    /\ recCurrent = NoCurrent
    /\ recIndex = 0
    /\ recScored = <<>>
    /\ recommendations = <<>>

\* setDraftState(next) from an event handler, and the render that follows up
\* to the call of getRecommendations
SetDraftState(next) ==
    /\ hookLoaded
    /\ recPc = "returned"
    /\ draftState' = next
    /\ recPass' = Recommend(hookLoaded, hookInputs, storedDists, next)
    /\ recArgs' = PassArgs(hookInputs, storedDists, next)
    /\ recPc' = "ready"
    /\ UNCHANGED <<engineVars, zCall, simVars, hookLoaded, hookInputs, hookTimer, hookChanges,
                   storedDists, storedLog, recEmptySlots, recCurrent, recIndex, recScored,
                   recommendations>>

\* lines 251-274
handleDraftMe ==
    \E id \in HookIds, now \in Timestamps : SetDraftState(draftForMe(draftState, id, now))

handleDraftOther == \E id \in HookIds : SetDraftState(draftForOther(draftState, id))

handleUndoLast == SetDraftState(removeLastMyPick(draftState))

handleUndoOther == \E id \in HookIds : SetDraftState(undraftOther(draftState, id))

\* lines 299-301
handleResetDraft == SetDraftState(createEmptyDraftState)

NextHook == HookLoad \/ HookChange \/ HookTimerFires

\* the draft under one catalog and one settings value: an event handler, then
\* getRecommendations from its call to its return
NextPicks ==
    \/ handleDraftMe \/ handleDraftOther \/ handleUndoLast \/ handleUndoOther
    \/ handleResetDraft
    \/ RecBegin \/ RecCandidate \/ RecReturn

SpecPicks == InitPicks /\ [][NextPicks]_vars

\* the stores finish loading and a timer that stays scheduled fires
SpecHook ==
    /\ InitHook
    /\ [][NextHook]_vars
    /\ WF_vars(HookLoad)
    /\ WF_vars(HookTimerFires)

----------------------------------------------------------------------------
(* Properties of the simulation effect *)

\* only the simulation of the latest render is scheduled
OnlyLatestScheduled ==
    \A i \in DOMAIN hookTimer :
        /\ hookTimer[i].handle = hookChanges
        /\ hookTimer[i].inputs = hookInputs

\* results are stored in the order of the renders they come from
StoredInOrder ==
    \A i, j \in DOMAIN storedLog : i < j => storedLog[i].handle < storedLog[j].handle

\* what is stored is null or the whole result of the last store
StoredWhole ==
    IF storedLog = <<>> THEN storedDists = NullDists
    ELSE storedDists = HookSimulate(storedLog[Len(storedLog)].inputs)

\* a result is stored only while its render is the latest one
StoredWhileLatest ==
    [][\A i \in DOMAIN storedLog' :
          i > Len(storedLog) =>
              storedLog'[i].handle = hookChanges /\ storedLog'[i].inputs = hookInputs]_vars

\* C16: a scheduled simulation is cancelled when the catalog or the settings
\* change, so only the simulation for the latest inputs is ever scheduled and a
\* result is stored only for the inputs that are the latest when it is stored;
\* results are stored in the order of their inputs, the stored value is one
\* whole result, and eventually the stored distributions are for ever the
\* result for the latest inputs.
C16_Supersession ==
    /\ [](OnlyLatestScheduled /\ StoredInOrder /\ StoredWhole)
    /\ StoredWhileLatest
    /\ <>[](storedDists = HookSimulate(hookInputs))

\* a simulation was scheduled, superseded by a change, and the result of the
\* later inputs is stored
C16_Witness ==
    /\ hookLoaded
    /\ hookTimer = <<>>
    /\ Len(storedLog) = 2
    /\ storedLog[1].handle + 1 < storedLog[2].handle
    /\ storedDists = HookSimulate(hookInputs)
    /\ storedLog[1].inputs # hookInputs

----------------------------------------------------------------------------
(* getRecommendations and simulateLeagueDistributions, as the hook calls them *)

\* both are called with degenerate settings: no roster slot, no team
InitBoth ==
    /\ IdleEngine
    /\ zCall = NoCall
    /\ IdleHook
    /\ recPc = "ready"
    /\ recArgs \in [availablePlayers : RecAvailable \ {<<>>},
                    myDraftedPlayers : {<<RecPool.d1>>},
                    settings : {st \in RecSettings : st.rosterConfig = <<>>},
                    leagueDists : {NoDists}, riskTolerance : {Num(0)},
                    currentOverallPick : {0}, topN : {10}]
    /\ recEmptySlots = <<>>
    /\ recCurrent = NoCurrent
    /\ recIndex = 0
    /\ recScored = <<>>
    /\ recommendations = <<>>
    /\ simPc = "ready"
    /\ simArgs \in [allPlayers : {<<SimPool.h1, SimPool.h2, SimPool.p1, SimPool.p2>>},
                    settings : {st \in SimSettings :
                                   /\ st.numTeams = 0
                                   /\ st.rosterConfig =
                                         buildRosterConfigFromCounts(Counts(1, 1, 0, 1, 0, 0))},
                    opts : {[iterations |-> 1, seed |-> 42, randomness |-> 14]}]
    /\ rngState = <<0, 0>>
    /\ iter = 0
    /\ scored = <<>>
    /\ draft = NoDraft
    /\ pick = 0
    /\ team = 0
    /\ valuesByCat = [k \in {} |-> <<>>]
    /\ simResults = <<>>

\* one call of either, or both with the degenerate settings; getRecommendations
\* is called with no distributions and the hook's topN
InitApp ==
    \/ InitRec /\ recArgs.leagueDists = NoDists /\ recArgs.topN = 10
    \/ InitSim
    \/ InitBoth

NextApp == NextRec \/ NextSim

SpecApp == InitApp /\ [][NextApp]_vars

----------------------------------------------------------------------------
(* Properties of the engine as a whole *)

\* getRecommendations is past its first assignment
RecRunning == recPc \in {"loop", "returned"}

\* no step changes an argument, or the template between two candidates
InputsKept ==
    /\ recArgs' = recArgs
    /\ simArgs' = simArgs
    /\ recPc = "loop" => recEmptySlots' = recEmptySlots

\* the template is the empty one, and a returned player is a candidate as given
TemplateEmptyPlayersOriginal ==
    /\ RecRunning =>
          /\ recEmptySlots = expandRosterSlots(recArgs.settings.rosterConfig)
          /\ \A i \in DOMAIN recEmptySlots : recEmptySlots[i].player = null
    /\ \A i \in DOMAIN recScored : recScored[i].player \in Candidates
    /\ \A i \in DOMAIN recommendations : recommendations[i].player \in Candidates

C18_EdgeConfigurations ==
    /\ (RecRunning /\ recArgs.settings.rosterConfig = <<>>) =>
          /\ recCurrent.currentAssigned = <<>>
          /\ \A k \in DOMAIN recCurrent.currentTotals : recCurrent.currentTotals[k] = Num(0)
          /\ recScored = <<>>
          /\ recommendations = <<>>
    /\ (Returned /\ simArgs.settings.numTeams = 0) =>
          /\ LastResult.samples = 0
          /\ DOMAIN LastResult.categories = activeCategories(simArgs.settings)
          /\ \A k \in DOMAIN LastResult.categories :
                LastResult.categories[k] = [mean |-> Num(0), std |-> Sqrt(Num(1))]

\* both calls have returned: candidates were available and no slot was there,
\* players and iterations were there and no team
C18_Witness ==
    /\ RecReturned
    /\ recArgs.settings.rosterConfig = <<>>
    /\ recArgs.availablePlayers # <<>>
    /\ DOMAIN recCurrent.currentTotals # {}
    /\ Returned
    /\ simArgs.settings.numTeams = 0
    /\ simArgs.opts.iterations > 0
    /\ simArgs.allPlayers # <<>>
    /\ activeCategories(simArgs.settings) # {}

----------------------------------------------------------------------------
(* Properties of the simulated draft *)

\* a step of the pick loop in which a player is drafted
PickDrafts == simPc = "pick" /\ pick' = pick + 1 /\ draft.remaining # <<>>

\* the team (from 1) that pick index k belongs to among n teams
SnakeTeam(k, n) ==
    IF (k \div n) % 2 = 0 THEN (k % n) + 1 ELSE n - (k % n)

\* the pick goes to the roster of the team of the snake order and to no other
PickerIsSnakeTeam ==
    PickDrafts =>
        \A t \in DOMAIN draft.teams :
            IF t = SnakeTeam(pick, simArgs.settings.numTeams)
            THEN Len(draft'.teams[t]) = Len(draft.teams[t]) + 1
            ELSE draft'.teams[t] = draft.teams[t]

\* in every round every team has one pick index, and the team of the last pick
\* index of a round has the first of the next
RoundsCoverTeams ==
    (simPc = "pick" /\ simArgs.settings.numTeams > 0) =>
        \A n \in {simArgs.settings.numTeams} :
            \A r \in 0..(classifyTeamTargets(simArgs.settings.rosterConfig).rosterSize - 1) :
                /\ \A t \in 0..(n - 1) :
                      Cardinality({j \in 0..(n - 1) : snakeTeamIndex(r * n + j, n) = t}) = 1
                /\ snakeTeamIndex(r * n + n - 1, n) = snakeTeamIndex((r + 1) * n, n)

\* C21: with N teams pick index k is made by team k mod N in an even round
\* floor(k / N) and by team N - 1 - (k mod N) in an odd round; every team has
\* exactly one pick in every round, and the team that picks last in a round
\* picks first in the next.
C21_SnakeOrder == [][PickerIsSnakeTeam]_vars /\ []RoundsCoverTeams

\* two teams are through the second, reversed round with two players each
C21_Witness ==
    /\ simPc = "pick"
    /\ simArgs.settings.numTeams = 2
    /\ pick = 4
    /\ Len(draft.teams[1]) = 2
    /\ Len(draft.teams[2]) = 2

\* the number of players of a role on a roster
RoleCount(roster, role) ==
    Cardinality({i \in DOMAIN roster : roster[i].hitterOrPitcher = role})

\* the first player of the role in the list, or the first player when the
\* list has none of the role
FirstOfRole(remaining, role) ==
    IF \E i \in DOMAIN remaining : remaining[i].hitterOrPitcher = role
    THEN CHOOSE i \in DOMAIN remaining :
             /\ remaining[i].hitterOrPitcher = role
             /\ \A j \in 1..(i - 1) : remaining[j].hitterOrPitcher # role
    ELSE 1

\* the role the claim has the team draft: the one role needed, or the role
\* with the larger (target - count) / target, hitters on a tie
RoleToDraft(countH, countP, targetH, targetP) ==
    IF countH < targetH /\ ~(countP < targetP) THEN "hitter"
    ELSE IF countP < targetP /\ ~(countH < targetH) THEN "pitcher"
    ELSE IF (targetP - countP) * targetH > (targetH - countH) * targetP THEN "pitcher"
    ELSE "hitter"

\* the player drafted is the first of the role to draft, it leaves the
\* remaining pool and joins the roster of the team on the clock
PickFollowsRoleRule ==
    PickDrafts =>
        \A t \in {SnakeTeam(pick, simArgs.settings.numTeams)} :
        \A targets \in {classifyTeamTargets(simArgs.settings.rosterConfig)} :
        \A i \in {FirstOfRole(draft.remaining,
                              RoleToDraft(RoleCount(draft.teams[t], "hitter"),
                                          RoleCount(draft.teams[t], "pitcher"),
                                          targets.hitterTarget, targets.pitcherTarget))} :
            /\ draft'.teams[t] = Append(draft.teams[t], draft.remaining[i])
            /\ draft'.remaining =
                  SubSeq(draft.remaining, 1, i - 1)
                      \o SubSeq(draft.remaining, i + 1, Len(draft.remaining))

\* C22: at each pick the team drafts the first remaining player of the one
\* role it needs, or the first remaining player when none of that role is
\* left; when it needs both roles or neither, the role with the larger
\* (target - count) / target, hitters on a tie; the drafted player leaves the
\* remaining pool.
C22_RoleSelection == [][PickFollowsRoleRule]_vars

\* a team that needed one role only and found none of it left took the first
\* remaining player, of the other role
C22_Witness ==
    /\ simPc = "pick"
    /\ pick > 0
    /\ \A targets \in {classifyTeamTargets(simArgs.settings.rosterConfig)} :
          \E t \in DOMAIN draft.teams :
              \/ /\ RoleCount(draft.teams[t], "hitter") > targets.hitterTarget
                 /\ RoleCount(draft.teams[t], "pitcher") < targets.pitcherTarget
              \/ /\ RoleCount(draft.teams[t], "pitcher") > targets.pitcherTarget
                 /\ RoleCount(draft.teams[t], "hitter") < targets.hitterTarget

\* the two targets add up to the number of slots
TargetsFillRoster ==
    simPc # "idle" =>
        \A targets \in {classifyTeamTargets(simArgs.settings.rosterConfig)} :
            /\ targets.hitterTarget + targets.pitcherTarget = Len(simArgs.settings.rosterConfig)
            /\ targets.hitterTarget >= 0
            /\ targets.pitcherTarget >= 0

\* the team that drafts is under one of its two targets
DraftingTeamNeedsARole ==
    PickDrafts =>
        \A t \in {SnakeTeam(pick, simArgs.settings.numTeams)} :
        \A targets \in {classifyTeamTargets(simArgs.settings.rosterConfig)} :
            /\ \/ draft.teamH[t] < targets.hitterTarget
               \/ draft.teamP[t] < targets.pitcherTarget
            /\ desiredType(draft.teamH[t], draft.teamP[t],
                           targets.hitterTarget, targets.pitcherTarget) # "either"

\* C29: hitterTarget + pitcherTarget is the number of roster slots, and at
\* every pick at which a player is drafted the team on the clock still needs a
\* role: the "either" branch is not taken.
C29_EitherNeverTaken == [][DraftingTeamNeedsARole]_vars /\ []TargetsFillRoster

\* every team has filled a roster that has a bench slot, the last pick included
C29_Witness ==
    /\ simPc = "pick"
    /\ pick = totalPicks
    /\ simArgs.settings.numTeams > 0
    /\ \E i \in DOMAIN simArgs.settings.rosterConfig :
          StartsWithBN(simArgs.settings.rosterConfig[i].label)
    /\ \A t \in DOMAIN draft.teams : Len(draft.teams[t]) = Len(simArgs.settings.rosterConfig)

\* the places (team, index) of the players drafted so far in the iteration
RosterPlaces ==
    UNION {{<<t, i>> : i \in DOMAIN draft.teams[t]} : t \in DOMAIN draft.teams}

InDraft == simPc \in {"pick", "sample"}

\* no entry of the catalog is on two rosters or twice on one, and the entries
\* not drafted are the ones still in remaining
NoPlayerDraftedTwice ==
    InDraft =>
        /\ \A a, b \in RosterPlaces :
              draft.teams[a[1]][a[2]].playerId = draft.teams[b[1]][b[2]].playerId => a = b
        /\ \A a \in RosterPlaces : \A i \in DOMAIN draft.remaining :
              draft.teams[a[1]][a[2]].playerId # draft.remaining[i].playerId
        /\ Cardinality(RosterPlaces) + Len(draft.remaining) = Len(simArgs.allPlayers)
        /\ {draft.teams[a[1]][a[2]] : a \in RosterPlaces} \cup Range(draft.remaining)
               = Range(simArgs.allPlayers)

\* no roster is longer than rosterSize; when the picks are over a roster is
\* full if the catalog had a player for every pick, and the catalog is used
\* up otherwise
RostersWithinSize ==
    InDraft =>
        \A n \in {Len(simArgs.settings.rosterConfig)} :
            /\ \A t \in DOMAIN draft.teams : Len(draft.teams[t]) <= n
            /\ pick >= totalPicks =>
                  IF Len(simArgs.allPlayers) >= totalPicks
                  THEN \A t \in DOMAIN draft.teams : Len(draft.teams[t]) = n
                  ELSE draft.remaining = <<>>

\* one sample per team per enabled category for every finished iteration
SamplesPerTeam ==
    /\ simPc = "map" =>
          \A k \in DOMAIN valuesByCat :
              Len(valuesByCat[k]) = iter * simArgs.settings.numTeams
    /\ simPc = "sample" =>
          \A k \in DOMAIN valuesByCat :
              Len(valuesByCat[k]) = iter * simArgs.settings.numTeams + team
    /\ (simPc = "returned" /\ activeCategories(simArgs.settings) # {}) =>
          /\ DOMAIN simResults[Len(simResults)].categories = activeCategories(simArgs.settings)
          /\ simResults[Len(simResults)].samples
                = simArgs.opts.iterations * simArgs.settings.numTeams

----------------------------------------------------------------------------
(* Properties of the category weights and of the scarcity term *)

\* the weight the rule gives a category at z under the threshold
WeightRule(z, threshold) ==
    IF Lt(z, threshold)
    THEN Add(Num(1), Mul(Rat(55, 100), MinNum(Sub(threshold, z), Rat(5, 2))))
    ELSE IF Gt(z, Add(threshold, Rat(3, 2))) THEN Rat(3, 4)
    ELSE Num(1)

\* z-scores half a point apart, from 3.5 under the threshold to 3.5 over it
ZGrid(threshold) == {Add(threshold, Rat(k, 2)) : k \in (-7)..7}

\* the pass over the current roster is done and no candidate is scored yet
WeightsComputed == recPc = "loop" /\ recIndex = 0

\* the weights of the current roster are the ones the rule gives
WeightsFollowRule ==
    WeightsComputed =>
        /\ DOMAIN recCurrent.catWeights = DOMAIN recCurrent.currentZScores
        /\ \A k \in DOMAIN recCurrent.catWeights :
              /\ recCurrent.catWeights[k] =
                    WeightRule(recCurrent.currentZScores[k],
                               recArgs.settings.competitiveThresholdZ)
              /\ Ge(recCurrent.catWeights[k], Rat(4, 10))
              /\ Le(recCurrent.catWeights[k], Rat(28, 10))

\* over the grid the weight is the rule's, within [0.4, 2.8], and it does not
\* go up from one z to the next
WeightsOverGrid ==
    WeightsComputed =>
        \A th \in {recArgs.settings.competitiveThresholdZ} :
        \A z \in ZGrid(th) :
        \A w \in {CategoryWeight(z, th)} :
            /\ w = WeightRule(z, th)
            /\ Ge(w, Rat(4, 10))
            /\ Le(w, Rat(28, 10))
            /\ Ge(w, CategoryWeight(Add(z, Rat(1, 2)), th))

\* C23: the weight of an enabled category with current z-score z under the
\* threshold T is 1 + 0.55*min(T - z, 2.5) when z < T, 0.75 when z > T + 1.5
\* and 1 otherwise; it lies in [0.4, 2.8] and does not increase with z.
C23_CategoryWeights == WeightsFollowRule /\ WeightsOverGrid

\* a current roster with a category under a threshold of 0.5 and a category
\* more than 1.5 over it
C23_Witness ==
    /\ WeightsComputed
    /\ recArgs.settings.competitiveThresholdZ = Rat(1, 2)
    /\ \E k \in DOMAIN recCurrent.catWeights :
          /\ Lt(recCurrent.currentZScores[k], Rat(1, 2))
          /\ Gt(recCurrent.catWeights[k], Num(1))
    /\ \E k \in DOMAIN recCurrent.catWeights :
          /\ Gt(recCurrent.currentZScores[k], Num(2))
          /\ recCurrent.catWeights[k] = Rat(3, 4)

\* the largest value of the table over the positions, of which there is one
RECURSIVE TableMax(_, _)
TableMax(positions, i) ==
    IF i = Len(positions) THEN POSITION_SCARCITY_BONUS(positions[i])
    ELSE MaxNum(POSITION_SCARCITY_BONUS(positions[i]), TableMax(positions, i + 1))

\* +0.1 when one slot other than bench and UTIL is open for the player,
\* -0.1 when the open slots that take the player are all bench slots
SlotAdjustments(p, openSlots) ==
    LET takes == {i \in DOMAIN openSlots : Fillable(p, openSlots[i])}
        starting == {i \in takes : openSlots[i].label.base \notin {"BN", "UTIL"}}
    IN  Sub(IF Cardinality(starting) = 1 THEN Rat(1, 10) ELSE Num(0),
            IF takes # {} /\ \A i \in takes : openSlots[i].label.base = "BN"
            THEN Rat(1, 10) ELSE Num(0))

\* C24: the scarcity term of a candidate is the largest table value over its
\* positions (-0.05 for a DH-only candidate, 0.15 for a catcher-eligible one,
\* 0 for a first-base-only or outfield-only one) plus the slot adjustments.
C24_ScarcityBase ==
    recPc = "loop" =>
        \A p \in Candidates :
            p.positions # <<>> =>
                positionScarcityScore(p, recCurrent.openSlots)
                    = Add(TableMax(p.positions, 1), SlotAdjustments(p, recCurrent.openSlots))

----------------------------------------------------------------------------
(* Properties of the recommendations of the hook *)

\* the distributions of the pass were simulated from the inputs of the pass,
\* which are the current ones
PassUsesCurrentDists ==
    (recPass.called /\ recPass.dists.simulated) =>
        /\ recPass.inputs = hookInputs
        /\ recPass.dists = HookSimulate(hookInputs)
        /\ recPass.args.leagueDists = DistsOf(HookSimulate(hookInputs))

\* C25: whenever the hook invokes getRecommendations with distributions that
\* are not null, they were simulated from the catalog and settings current at
\* that moment; after a change no pass uses the distributions of the previous
\* catalog or settings.
C25_CurrentDistributions == PassUsesCurrentDists

\* the ids of the candidates getRecommendations is called with
PassIds == {recArgs.availablePlayers[i].playerId : i \in DOMAIN recArgs.availablePlayers}

\* C30: the candidates the hook gives to getRecommendations, and the ones it
\* gets back, never include a player whose id is in myPicks or otherPicks, and
\* the pick number passed is myPicks.length + otherPicks.length + 1.
C30_CandidatesUndrafted ==
    /\ recPass.called
    /\ recArgs.topN = 10
    /\ PassIds \cap getDraftedIds(draftState) = {}
    /\ {recPass.args.availablePlayers[i].playerId : i \in DOMAIN recPass.args.availablePlayers}
           \cap getDraftedIds(draftState) = {}
    /\ recArgs.currentOverallPick = Len(draftState.myPicks) + Len(draftState.otherPicks) + 1
    /\ recPass.args.currentOverallPick = recArgs.currentOverallPick
    /\ recPc = "returned" =>
          \A i \in DOMAIN recommendations :
              /\ recommendations[i].player.playerId \in PassIds
              /\ recommendations[i].player.playerId \notin getDraftedIds(draftState)

\* getRecommendations has returned a candidate after a pick of mine and a
\* pick of the others
C30_Witness ==
    /\ recPc = "returned"
    /\ Len(draftState.myPicks) = 1
    /\ Len(draftState.otherPicks) = 1
    /\ recArgs.currentOverallPick = 3
    /\ Len(recommendations) = 1

====
